---- MODULE Spec2Model ----
(***************************************************************************)
(* Simple-Checklist: the checklist state engine.                           *)
(*                                                                         *)
(*   History Manager   src/src/features/undo_manager.py  (UndoManager)     *)
(*   Data Model        src/src/models/checklist.py       (Checklist)       *)
(*   Application       src/simple-checklist.py           (ChecklistApp)    *)
(*                                                                         *)
(* Each component has its own variables and its own specification; the     *)
(* actions of one component leave the variables of the others unchanged.   *)
(***************************************************************************)
EXTENDS Naturals, Integers, Sequences, FiniteSets, TLC

VARIABLES
    undo_stack,   \* UndoManager.undo_stack: sequence of entries, oldest first
    redo_stack,   \* UndoManager.redo_stack
    live,         \* the caller's live state dict, passed to the manager
    hist,         \* the last UndoManager call: operation, argument, result
    log,          \* the calls made on the manager since it was last empty
    categories,           \* Checklist.categories: sequence of Category
    current_category_id,  \* Checklist.current_category_id (NoId for None)
    mret,                 \* what the last Checklist call returned
    assigned,             \* the ids given to categories so far in the session
    data,          \* ChecklistApp.data: 'categories' and 'current_category'
    data_file,     \* ChecklistApp.data_file: the path of the open checklist
    disk_data,     \* the content of the file data_file on disk
    recent_files,  \* ChecklistApp.settings['recent_files']
    disk_recent,   \* 'recent_files' in the settings file on disk
    dialog,        \* the message box the last handler showed
    raised,        \* the exception that escaped the last handler
    file,          \* the content of the file at ChecklistStorage.file_path
    printed,       \* the last line ChecklistStorage printed
    settings,       \* SettingsManager.settings
    settings_file,  \* the content of the file at SettingsManager.settings_file
    existing,       \* the paths at which a file exists
    sret,           \* what the last SettingsManager call returned
    added,          \* the paths of the latest add_recent_file calls in a row
    task_obj,       \* a Task object
    tdict,          \* the dict last made by Task.to_dict or read from a file
    clock,          \* the position of the clock in ClockTimes
    scan, \* what the last reminder scan did: the notifications, the save, the refresh
    sorter, \* the list given to TaskSorter, as it was and as it is, and what was returned
    searcher, \* the arguments given to TaskSearcher.search_tasks and what it returned
    input_bg_color, \* ChecklistApp.settings['input_bg_color']
    drag_data,  \* DragDropManager.drag_data
    on_reorder,  \* whether DragDropManager.on_reorder is a callback
    dret  \* the last DragDropManager call, what it returned and the on_reorder calls it made

undoVars == <<undo_stack, redo_stack, live, hist, log>>

modelVars == <<categories, current_category_id, mret, assigned>>

appVars == <<data, data_file, disk_data, recent_files, disk_recent, dialog, raised>>

storageVars == <<file, printed>>

settingsVars == <<settings, settings_file, existing, sret, added>>

taskVars == <<task_obj, tdict, clock>>

reminderVars == <<scan>>

sortVars == <<sorter>>

searchVars == <<searcher>>

appSettingsVars == <<input_bg_color>>

dragVars == <<drag_data, on_reorder, dret>>

notUndoVars == <<modelVars, appVars, storageVars, settingsVars, taskVars, reminderVars, sortVars, searchVars, appSettingsVars, dragVars>>

notModelVars == <<undoVars, appVars, storageVars, settingsVars, taskVars, reminderVars, sortVars, searchVars, appSettingsVars, dragVars>>

notAppVars == <<undoVars, modelVars, storageVars, settingsVars, taskVars, reminderVars, sortVars, searchVars, appSettingsVars, dragVars>>

notModelStorageVars == <<undoVars, appVars, settingsVars, taskVars, reminderVars, sortVars, searchVars, appSettingsVars, dragVars>>

notSettingsVars == <<undoVars, modelVars, appVars, storageVars, taskVars, reminderVars, sortVars, searchVars, appSettingsVars, dragVars>>

notTaskVars == <<undoVars, modelVars, appVars, storageVars, settingsVars, reminderVars, sortVars, searchVars, appSettingsVars, dragVars>>

notReminderVars == <<undoVars, modelVars, appVars, storageVars, settingsVars, taskVars, sortVars, searchVars, appSettingsVars, dragVars>>

notSortVars == <<undoVars, modelVars, appVars, storageVars, settingsVars, taskVars, reminderVars, searchVars, appSettingsVars, dragVars>>

notSearchVars == <<undoVars, modelVars, appVars, storageVars, settingsVars, taskVars, reminderVars, sortVars, appSettingsVars, dragVars>>

notAppSettingsVars == <<undoVars, modelVars, appVars, storageVars, settingsVars, taskVars, reminderVars, sortVars, searchVars, dragVars>>

notAppSettingsAppVars == <<undoVars, modelVars, storageVars, settingsVars, taskVars, reminderVars, sortVars, searchVars, dragVars>>

notDragVars == <<undoVars, modelVars, appVars, storageVars, settingsVars, taskVars, reminderVars, sortVars, searchVars, appSettingsVars>>

notModelDragVars == <<undoVars, appVars, storageVars, settingsVars, taskVars, reminderVars, sortVars, searchVars, appSettingsVars>>

notModelStorageReminderVars == <<undoVars, appVars, settingsVars, taskVars, sortVars, searchVars, appSettingsVars, dragVars>>

vars == <<undo_stack, redo_stack, live, hist, log,
          categories, current_category_id, mret, assigned,
          data, data_file, disk_data, recent_files, disk_recent, dialog, raised,
          file, printed, settings, settings_file, existing, sret, added,
          task_obj, tdict, clock,
          scan,
          sorter,
          searcher,
          input_bg_color,
          drag_data, on_reorder, dret>>

(***************************************************************************)
(* Bounds and value domains                                                *)
(***************************************************************************)

\* UndoManager(max_history=...): the constructor argument.  The program
\* default is 20; the model instantiates the manager with a small cap so
\* that the cap is reached and exceeded.
max_history == 3

\* Category ids stay within 1..MaxCategoryId: no category is added beyond.
MaxCategoryId == 5

\* The checklist holds at most MaxTasks tasks: no task is added beyond.
MaxTasks == 1

\* Texts typed as tasks, and the times datetime.now() returns.
TaskTexts == {"task"}

Timestamps == {"2025-01-01T09:00:00"}

\* Paths of checklist files: the default data file and another file.
HomeFile == "home.json"

Files == {HomeFile, "other.json"}

\* Names given to new categories.
CategoryNames == {"New"}

\* Number of calls the log keeps before it overflows.
LogLen == 3

\* Values of the top-level field of the state dict ('current_category').
CurValues == {1, 2}

\* Values of the nested, mutable part of the state dict ('categories').
CatsValues == {"x", "y"}

\* Action descriptions passed to record_state.
Descriptions == {"edit"}

(***************************************************************************)
(* Python objects.  A state dict is a mutable object holding a scalar      *)
(* field and a reference to a nested mutable object.  A reference to such  *)
(* a dict is modelled by the dict's contents together with its identity    *)
(* relative to the live dict: rootLive says the reference is the live dict *)
(* itself, catsLive says its nested object is the live dict's nested       *)
(* object.  A mutation of the live dict is seen through every reference    *)
(* that shares the mutated object.                                         *)
(***************************************************************************)

\* The reference the caller passes: the live dict itself.
LiveRef ==
    [cur |-> live.cur, cats |-> live.cats, rootLive |-> TRUE, catsLive |-> TRUE]

\* The contents of a state dict, as compared by ==.
Value(obj) == [cur |-> obj.cur, cats |-> obj.cats]

\* A mutant of deepcopy: copy.copy, a new dict sharing the nested object.
shallowcopy(obj) ==
    [cur |-> obj.cur, cats |-> obj.cats, rootLive |-> FALSE, catsLive |-> obj.catsLive]

\* copy.deepcopy(state): a new dict with a new nested object.
deepcopy(obj) ==
    [cur |-> obj.cur, cats |-> obj.cats, rootLive |-> FALSE, catsLive |-> FALSE]

\* What a stored reference shows after live['current_category'] = v.
SeeTop(obj, v) == IF obj.rootLive THEN [obj EXCEPT !.cur = v] ELSE obj

\* What a stored reference shows after the nested object is mutated to v.
SeeNested(obj, v) == IF obj.catsLive THEN [obj EXCEPT !.cats = v] ELSE obj

\* The values held by a stack, oldest first.
StackValues(stack) == [i \in DOMAIN stack |-> Value(stack[i].state)]

\* Python's None as a result, and a returned state.
None == <<>>
Some(v) == <<v>>

NextCall(op, arg, ret) ==
    [n |-> 1 - hist.n, op |-> op, arg |-> arg, ret |-> ret]

EmptyLog == [calls |-> <<>>, full |-> FALSE]

Logged(op, arg) ==
    IF log.full \/ Len(log.calls) >= LogLen
    THEN [calls |-> <<>>, full |-> TRUE]
    ELSE [calls |-> Append(log.calls, [op |-> op, arg |-> arg]), full |-> FALSE]

(***************************************************************************)
(* UndoManager                                                             *)
(***************************************************************************)

\* A mutant of LimitHistory: no cap.
LimitHistoryNoCap(stack) == stack

\* record_state, "Limit history size": drop the oldest entry over the cap.
LimitHistory(stack) ==
    IF Len(stack) > max_history THEN Tail(stack) ELSE stack

\* A mutant of ClearedRedo: the redo stack survives a new action.
ClearedRedoKept(stack) == stack

\* record_state, "Clear redo stack when new action is recorded".
ClearedRedo(stack) == <<>>

\* A mutant of PopTop: the entry returned stays on the stack.
PopKeeping(stack) == [entry |-> stack[Len(stack)], rest |-> stack]

\* A mutant of PopTop: returns the oldest entry instead of the newest.
PopOldest(stack) == [entry |-> stack[1], rest |-> Tail(stack)]

\* list.pop(): the last entry and the remaining list.
PopTop(stack) ==
    [entry |-> stack[Len(stack)], rest |-> SubSeq(stack, 1, Len(stack) - 1)]

\* A mutant of SavedEntry: saves the state on top of the undo stack, not
\* the caller's current state.
SavedEntryOfTop(current, description) ==
    [state |-> IF undo_stack = <<>> THEN deepcopy(current)
               ELSE undo_stack[Len(undo_stack)].state,
     description |-> description]

\* The entry undo/redo pushes for the caller's current state.
SavedEntry(current, description) ==
    [state |-> deepcopy(current), description |-> description]

\* UndoManager.record_state(state, action_description)
record_state(description) ==
    /\ undo_stack' = LimitHistory(Append(undo_stack,
                         [state |-> deepcopy(LiveRef), description |-> description]))
    /\ redo_stack' = ClearedRedo(redo_stack)
    /\ hist' = NextCall("record_state", Value(LiveRef), None)
    /\ log' = Logged("record_state", Value(LiveRef))
    /\ UNCHANGED <<live, notUndoVars>>

\* A mutant of ReturnedWhenEmpty: the current state is handed back.
ReturnedCurrentWhenEmpty(current) == Some(Value(current))

\* undo and redo, "return None" when the stack to pop is empty.
ReturnedWhenEmpty(current) == None

\* UndoManager.undo(current_state)
undo ==
    IF undo_stack = <<>>
    THEN /\ hist' = NextCall("undo", Value(LiveRef), ReturnedWhenEmpty(LiveRef))
         /\ log' = Logged("undo", Value(LiveRef))
         /\ UNCHANGED <<undo_stack, redo_stack, live, notUndoVars>>
    ELSE /\ redo_stack' = Append(redo_stack, SavedEntry(LiveRef, "Redo"))
         /\ undo_stack' = PopTop(undo_stack).rest
         /\ hist' = NextCall("undo", Value(LiveRef),
                             Some(Value(PopTop(undo_stack).entry.state)))
         /\ log' = Logged("undo", Value(LiveRef))
         /\ UNCHANGED <<live, notUndoVars>>

\* UndoManager.redo(current_state)
redo ==
    IF redo_stack = <<>>
    THEN /\ hist' = NextCall("redo", Value(LiveRef), ReturnedWhenEmpty(LiveRef))
         /\ log' = Logged("redo", Value(LiveRef))
         /\ UNCHANGED <<undo_stack, redo_stack, live, notUndoVars>>
    ELSE /\ undo_stack' = Append(undo_stack, SavedEntry(LiveRef, "Undo"))
         /\ redo_stack' = PopTop(redo_stack).rest
         /\ hist' = NextCall("redo", Value(LiveRef),
                             Some(Value(PopTop(redo_stack).entry.state)))
         /\ log' = Logged("redo", Value(LiveRef))
         /\ UNCHANGED <<live, notUndoVars>>

\* UndoManager.clear()
clear ==
    /\ undo_stack' = <<>>
    /\ redo_stack' = <<>>
    /\ hist' = NextCall("clear", Value(LiveRef), None)
    /\ log' = EmptyLog
    /\ UNCHANGED <<live, notUndoVars>>

\* The caller assigns a top-level field of the live dict
\* (self.data['current_category'] = cat_id).
MutateTop(v) ==
    /\ v # live.cur
    /\ live' = [live EXCEPT !.cur = v]
    /\ undo_stack' = [i \in DOMAIN undo_stack |->
                        [undo_stack[i] EXCEPT !.state = SeeTop(@, v)]]
    /\ redo_stack' = [i \in DOMAIN redo_stack |->
                        [redo_stack[i] EXCEPT !.state = SeeTop(@, v)]]
    /\ UNCHANGED <<hist, log, notUndoVars>>

\* The caller mutates the nested part of the live dict in place
\* (category['tasks'][idx]['completed'] = ...).
MutateNested(v) ==
    /\ v # live.cats
    /\ live' = [live EXCEPT !.cats = v]
    /\ undo_stack' = [i \in DOMAIN undo_stack |->
                        [undo_stack[i] EXCEPT !.state = SeeNested(@, v)]]
    /\ redo_stack' = [i \in DOMAIN redo_stack |->
                        [redo_stack[i] EXCEPT !.state = SeeNested(@, v)]]
    /\ UNCHANGED <<hist, log, notUndoVars>>

\* UndoManager.__init__
UndoStart ==
    /\ undo_stack = <<>>
    /\ redo_stack = <<>>
    /\ live \in [cur : CurValues, cats : CatsValues]
    /\ hist = [n |-> 0, op |-> "init", arg |-> Value(LiveRef), ret |-> None]
    /\ log = EmptyLog

(***************************************************************************)
(* Checklist (data model)                                                  *)
(***************************************************************************)

\* Python's None for current_category_id; no category id of the model is 0.
NoId == 0

\* Category(category_id, name, tasks)
Category(category_id, name, tasks) ==
    [id |-> category_id, name |-> name, tasks |-> tasks]

\* Defaults.CATEGORIES
DefaultCategories ==
    << Category(1, "Slack", <<>>), Category(2, "Discord", <<>>),
       Category(3, "Twitter", <<>>), Category(4, "Telegram", <<>>),
       Category(5, "General", <<>>) >>

SetMax(S) == CHOOSE x \in S : \A y \in S : y <= x

SetMin(S) == CHOOSE x \in S : \A y \in S : x <= y

\* The ids of the categories of a list.
Ids(cats) == {cats[i].id : i \in DOMAIN cats}

\* Checklist.get_category(category_id) is not None
HasCategory(cats, category_id) == category_id \in Ids(cats)

\* A mutant of get_next_category_id: the number of categories plus one.
NextIdByCount(cats) == Len(cats) + 1

\* A mutant of get_next_category_id: the smallest id not in use.
NextIdSmallestFree(cats) ==
    SetMin({n \in 1..(Len(cats) + 1) : n \notin Ids(cats)})

\* Checklist.get_next_category_id()
get_next_category_id(cats) ==
    IF cats = <<>> THEN 1 ELSE SetMax(Ids(cats)) + 1

\* Index (from 1) of the first category with the id, 0 when there is none.
FirstIndexOf(cats, category_id) ==
    IF HasCategory(cats, category_id)
    THEN SetMin({i \in DOMAIN cats : cats[i].id = category_id})
    ELSE 0

\* list.pop(i) for a 1-based position: the list without that element.
WithoutAt(seq, i) == SubSeq(seq, 1, i - 1) \o SubSeq(seq, i + 1, Len(seq))

\* list.insert(i, x) for a 0-based index i within the list.
InsertAt(seq, i, x) == SubSeq(seq, 1, i) \o <<x>> \o SubSeq(seq, i + 1, Len(seq))

\* A mutant of Reordered: swaps the ids of the two positions instead of
\* moving the category.
ReorderedByRenumbering(cats, from_index, to_index) ==
    [i \in DOMAIN cats |->
        IF i = from_index + 1 THEN [cats[i] EXCEPT !.id = cats[to_index + 1].id]
        ELSE IF i = to_index + 1 THEN [cats[i] EXCEPT !.id = cats[from_index + 1].id]
        ELSE cats[i]]

\* reorder_categories: categories.pop(from_index), categories.insert(to_index, c)
Reordered(cats, from_index, to_index) ==
    InsertAt(WithoutAt(cats, from_index + 1), to_index, cats[from_index + 1])

\* A mutant of CanSetCurrent: any id is accepted.
CanSetCurrentAlways(cats, category_id) == TRUE

\* set_current_category: the guard "get_category(category_id) is not None".
CanSetCurrent(cats, category_id) == HasCategory(cats, category_id)

\* A new category is created with the id of get_next_category_id() and
\* added with Checklist.add_category(category).
add_category(name) ==
    LET new_id == get_next_category_id(categories) IN
    /\ new_id <= MaxCategoryId
    /\ categories' = Append(categories, Category(new_id, name, <<>>))
    /\ mret' = "None"
    /\ assigned' = assigned \cup {new_id}
    /\ UNCHANGED <<current_category_id, notModelVars>>

\* Checklist.remove_category(category_id)
remove_category(category_id) ==
    LET i == FirstIndexOf(categories, category_id) IN
    /\ IF i # 0
       THEN /\ categories' = WithoutAt(categories, i)
            /\ mret' = "Category"
       ELSE /\ categories' = categories
            /\ mret' = "None"
    /\ UNCHANGED <<current_category_id, assigned, notModelVars>>

\* Checklist.set_current_category(category_id)
set_current_category(category_id) ==
    /\ IF CanSetCurrent(categories, category_id)
       THEN /\ current_category_id' = category_id
            /\ mret' = "True"
       ELSE /\ current_category_id' = current_category_id
            /\ mret' = "False"
    /\ UNCHANGED <<categories, assigned, notModelVars>>

\* reorder_categories: both indices are in range and differ.
CanReorder(cats, from_index, to_index) ==
    /\ 0 <= from_index /\ from_index < Len(cats)
    /\ 0 <= to_index /\ to_index < Len(cats)
    /\ from_index # to_index

\* Checklist.reorder_categories(from_index, to_index)
reorder_categories(from_index, to_index) ==
    /\ IF CanReorder(categories, from_index, to_index)
       THEN /\ categories' = Reordered(categories, from_index, to_index)
            /\ mret' = "True"
       ELSE /\ categories' = categories
            /\ mret' = "False"
    /\ UNCHANGED <<current_category_id, assigned, notModelVars>>

(***************************************************************************)
(* Task and Subtask (src/models/task.py)                                   *)
(*                                                                         *)
(* A Task object is a record of its eight attributes.  A dict is a         *)
(* function on the keys it has.  Python's None among strings is NoneStr.   *)
(***************************************************************************)

NoneStr == "None"

\* No dict: nothing was serialized or read yet.
NoDict == [k \in {} |-> k]

\* data.get(key, default)
Get(dict, key, default) == IF key \in DOMAIN dict THEN dict[key] ELSE default

\* "if value:" for a string or None.
Truthy(value) == value \notin {NoneStr, ""}

\* The times the clock shows.
MaxClock == 3

ClockTimes ==
    <<"2025-01-01T09:00:00", "2025-01-02T09:00:00", "2025-01-03T09:00:00",
      "2025-01-04T09:00:00", "2025-01-05T09:00:00">>

\* datetime.now().isoformat()
Now == ClockTimes[clock]

\* Subtask.to_dict()
SubtaskToDict(subtask) == [text |-> subtask.text, completed |-> subtask.completed]

\* Subtask.from_dict(data)
SubtaskFromDict(dict) ==
    [text |-> dict.text, completed |-> Get(dict, "completed", FALSE)]

\* Task.__init__: "created or datetime.now().isoformat()"
CreatedOrNow(created, now) == IF Truthy(created) THEN created ELSE now

\* Task.__init__(text, completed, notes, subtasks, created, priority,
\* due_date, reminder) at the time now.
TaskInit(text, completed, notes, subtasks, created, priority, due_date, reminder, now) ==
    [text |-> text, completed |-> completed, notes |-> notes,
     subtasks |-> subtasks, created |-> CreatedOrNow(created, now),
     priority |-> priority, due_date |-> due_date, reminder |-> reminder]

\* A mutant of OmittedKeys: the priority is never written.
OmittedKeysAndPriority(t) == {"notes", "subtasks", "priority", "due_date", "reminder"}

\* Task.to_dict(): the keys left out of the dict.
OmittedKeys(t) ==
    (IF t.notes # <<>> THEN {} ELSE {"notes"})
    \cup (IF t.subtasks # <<>> THEN {} ELSE {"subtasks"})
    \cup (IF t.priority # "medium" THEN {} ELSE {"priority"})
    \cup (IF Truthy(t.due_date) THEN {} ELSE {"due_date"})
    \cup (IF Truthy(t.reminder) THEN {} ELSE {"reminder"})

\* Task.to_dict()
TaskToDict(t) ==
    [k \in DOMAIN t \ OmittedKeys(t) |->
        IF k = "subtasks"
        THEN [i \in DOMAIN t.subtasks |-> SubtaskToDict(t.subtasks[i])]
        ELSE t[k]]

\* Task.from_dict(data) at the time now.
TaskFromDict(dict, now) ==
    TaskInit(Get(dict, "text", ""),
             Get(dict, "completed", FALSE),
             Get(dict, "notes", <<>>),
             IF "subtasks" \in DOMAIN dict
             THEN [i \in DOMAIN dict.subtasks |-> SubtaskFromDict(dict.subtasks[i])]
             ELSE <<>>,
             Get(dict, "created", NoneStr),
             Get(dict, "priority", "medium"),
             Get(dict, "due_date", NoneStr),
             Get(dict, "reminder", NoneStr),
             now)

\* The arguments tasks are constructed with.
TaskNotes == {<<>>, <<"note">>}

TaskSubtasks == {<<>>, <<[text |-> "sub", completed |-> TRUE]>>}

TaskCreated == {NoneStr, "2024-12-31T08:00:00"}

TaskPriorities == {"low", "medium", "high"}

TaskDueDates == {NoneStr, "", "2025-02-01"}

TaskReminders == {NoneStr, "2025-02-01T08:00:00"}

\* The task dicts read from files that other versions or other programs
\* wrote: without 'created', with a priority that is not a priority, with
\* an empty due date and a subtask that has no 'completed'.
TaskDicts ==
    { [text |-> "task", completed |-> FALSE, created |-> "2024-12-31T08:00:00"],
      [text |-> "task", completed |-> FALSE],
      [text |-> "task", completed |-> TRUE, created |-> "2024-12-31T08:00:00",
       priority |-> "urgent"],
      [text |-> "task", completed |-> FALSE, created |-> "2024-12-31T08:00:00",
       priority |-> "high", due_date |-> "", subtasks |-> <<[text |-> "sub"]>>] }

\* A Task is constructed; nothing of it is serialized yet.
Task_init(text, completed, notes, subtasks, created, priority, due_date, reminder) ==
    /\ task_obj' = TaskInit(text, completed, notes, subtasks, created,
                            priority, due_date, reminder, Now)
    /\ tdict' = NoDict
    /\ UNCHANGED <<clock, notTaskVars>>

\* tdict = task_obj.to_dict()
Task_to_dict ==
    /\ tdict' = TaskToDict(task_obj)
    /\ UNCHANGED <<task_obj, clock, notTaskVars>>

\* task_obj = Task.from_dict(tdict)
Task_from_dict ==
    /\ tdict # NoDict
    /\ task_obj' = TaskFromDict(tdict, Now)
    /\ UNCHANGED <<tdict, clock, notTaskVars>>

\* A task dict is read from a file.
ReadTaskDict(dict) ==
    /\ tdict' = dict
    /\ UNCHANGED <<task_obj, clock, notTaskVars>>

\* Time passes.
Tick ==
    /\ clock < MaxClock
    /\ clock' = clock + 1
    /\ UNCHANGED <<task_obj, tdict, notTaskVars>>

\* Task("task") constructed at the first time of the clock.
TaskStart ==
    /\ clock = 1
    /\ task_obj = TaskInit("task", FALSE, <<>>, <<>>, NoneStr, "medium",
                           NoneStr, NoneStr, ClockTimes[1])
    /\ tdict = NoDict

TaskIdle == TaskStart

\* dict.get(key): the value, None when the key is absent.
DictGet(dict, key) == IF key \in DOMAIN dict THEN dict[key] ELSE NoId

\* Category.from_dict(data) at the time now.
CategoryFromDict(dict, now) ==
    Category(dict.id, dict.name,
             IF "tasks" \in DOMAIN dict
             THEN [i \in DOMAIN dict.tasks |-> TaskFromDict(dict.tasks[i], now)]
             ELSE <<>>)

\* Checklist.from_dict(data) at the time now: the categories.
CategoriesFromDict(dict, now) ==
    IF "categories" \in DOMAIN dict
    THEN [i \in DOMAIN dict.categories |->
             CategoryFromDict(dict.categories[i], now)]
    ELSE <<>>

\* Checklist.from_dict(data): a new Checklist replaces the current one.
from_dict(dict) ==
    /\ categories' = CategoriesFromDict(dict, Now)
    /\ current_category_id' = DictGet(dict, "current_category")
    /\ mret' = "Checklist"
    /\ assigned' = assigned \cup Ids(categories')
    /\ UNCHANGED notModelVars

\* The dicts from_dict is given: category lists with distinct and with
\* repeated ids, 'current_category' naming a listed category, naming none,
\* null, or absent, and a dict without 'categories'.
DictCategoryLists ==
    { <<>>,
      << [id |-> 1, name |-> "Slack"] >>,
      << [id |-> 2, name |-> "Discord"], [id |-> 1, name |-> "Slack"] >>,
      << [id |-> 2, name |-> "Discord"], [id |-> 2, name |-> "Discord"] >> }

Dicts ==
    { [categories |-> cl, current_category |-> c] :
          cl \in DictCategoryLists, c \in {NoId, 1, 3} }
    \cup { [categories |-> cl] : cl \in DictCategoryLists }
    \cup { [current_category |-> c] : c \in {NoId, 1} }

(***************************************************************************)
(* Category and Task operations (src/models/category.py, task.py)          *)
(*                                                                         *)
(* The objects are those of the checklist: categories[i] is a Category,    *)
(* categories[i].tasks[j] a Task, its subtasks[k] a Subtask.               *)
(***************************************************************************)

\* Category.get_completed_tasks()
get_completed_tasks(tasks) ==
    LET Completed(t) == t.completed IN SelectSeq(tasks, Completed)

\* A mutant of get_pending_tasks: every task after the first completed one
\* is dropped too.
PendingBeforeCompleted(tasks) ==
    LET first == {k \in DOMAIN tasks : tasks[k].completed}
    IN IF first = {} THEN tasks
       ELSE SubSeq(tasks, 1, (CHOOSE k \in first : \A l \in first : k <= l) - 1)

\* Category.get_pending_tasks()
get_pending_tasks(tasks) ==
    LET Pending(t) == ~t.completed IN SelectSeq(tasks, Pending)

\* Category.clear_completed() on categories[i]: the count is returned.
clear_completed(i) ==
    /\ i \in DOMAIN categories
    /\ mret' = ToString(Len(get_completed_tasks(categories[i].tasks)))
    /\ categories' = [categories EXCEPT
                         ![i].tasks = get_pending_tasks(categories[i].tasks)]
    /\ UNCHANGED <<current_category_id, assigned, notModelVars>>

\* A mutant of Toggled: completing a task completes its subtasks, and
\* reopening it reopens them.
ToggledWithSubtasks(t) ==
    [t EXCEPT !.completed = ~@,
              !.subtasks = [k \in DOMAIN @ |->
                               [@[k] EXCEPT !.completed = ~t.completed]]]

\* self.completed = not self.completed, for a Task.
Toggled(t) == [t EXCEPT !.completed = ~@]

\* self.completed = not self.completed, for a Subtask.
ToggledSubtask(subtask) == [subtask EXCEPT !.completed = ~@]

\* Task.toggle_completion() on categories[i].tasks[j]
toggle_completion(i, j) ==
    /\ i \in DOMAIN categories
    /\ j \in DOMAIN categories[i].tasks
    /\ categories' = [categories EXCEPT ![i].tasks[j] = Toggled(@)]
    /\ mret' = "None"
    /\ UNCHANGED <<current_category_id, assigned, notModelVars>>

\* Subtask.toggle_completion() on categories[i].tasks[j].subtasks[k]
Subtask_toggle_completion(i, j, k) ==
    /\ i \in DOMAIN categories
    /\ j \in DOMAIN categories[i].tasks
    /\ k \in DOMAIN categories[i].tasks[j].subtasks
    /\ categories' = [categories EXCEPT
                         ![i].tasks[j].subtasks[k] = ToggledSubtask(@)]
    /\ mret' = "None"
    /\ UNCHANGED <<current_category_id, assigned, notModelVars>>

(***************************************************************************)
(* ChecklistApp (src/simple-checklist.py)                                  *)
(*                                                                         *)
(* self.data is a dict {'categories': [...], 'current_category': id}.  A   *)
(* category dict is a record [id, name, tasks], a task dict a record       *)
(* [text, notes, completed, created] with an optional field subtasks, a    *)
(* subtask dict a record [text] with an optional field completed.  A JSON  *)
(* value that is not a dict where the program expects one (a number) is    *)
(* the record Junk.  Writing a file is taken to succeed.                   *)
(***************************************************************************)

Junk == [junk |-> "number"]

IsDict(v) == "junk" \notin DOMAIN v

NoDialog == [title |-> "", reason |-> ""]

NoException == "None"

\* json.dump(self.data, f): the document a save writes.
Serialized(d) ==
    [kind |-> "json", root |-> "object",
     has_categories |-> TRUE, categories_is_list |-> TRUE,
     categories |-> d.categories,
     has_current |-> TRUE, current_category |-> d.current_category]

\* ChecklistApp.save_data(): the file content after the save.
save_data(d) == Serialized(d)

\* init_default_categories: the five default categories, the first current.
DefaultData == [categories |-> DefaultCategories, current_category |-> 1]

\* ChecklistApp.get_current_category(): the position of the first category
\* whose id is the current one, 0 for None; the loop raises TypeError at a
\* list element that is not a dict (cat['id']).
CurrentCategoryLookup(d) ==
    LET hits == {i \in DOMAIN d.categories :
                    \/ ~IsDict(d.categories[i])
                    \/ d.categories[i].id = d.current_category}
    IN  IF hits = {} THEN [index |-> 0, raises |-> NoException]
        ELSE IF ~IsDict(d.categories[SetMin(hits)])
             THEN [index |-> 0, raises |-> "TypeError"]
             ELSE [index |-> SetMin(hits), raises |-> NoException]

\* The number of tasks of the checklist.
RECURSIVE TaskCount(_)
TaskCount(cats) ==
    IF cats = <<>> THEN 0
    ELSE (IF IsDict(Head(cats)) THEN Len(Head(cats).tasks) ELSE 0)
         + TaskCount(Tail(cats))

\* add_category_dialog.add: name is the stripped text of the entry.
add(name) ==
    /\ IF name = ""
       THEN /\ dialog' = [title |-> "Invalid Input",
                          reason |-> "Category name cannot be empty!"]
            /\ UNCHANGED <<data, disk_data>>
       ELSE LET new_id == (IF data.categories = <<>> THEN 0
                           ELSE SetMax(Ids(data.categories))) + 1
                new_data == [categories |->
                                 Append(data.categories, Category(new_id, name, <<>>)),
                             current_category |-> new_id]
            IN  /\ new_id <= MaxCategoryId
                /\ data' = new_data
                /\ disk_data' = save_data(new_data)
                /\ dialog' = NoDialog
    /\ raised' = NoException
    /\ UNCHANGED <<data_file, recent_files, disk_recent, notAppVars>>

\* The categories whose id is not cat_id.
RECURSIVE OtherCategories(_, _)
OtherCategories(cats, cat_id) ==
    IF cats = <<>> THEN <<>>
    ELSE IF Head(cats).id # cat_id
         THEN <<Head(cats)>> \o OtherCategories(Tail(cats), cat_id)
         ELSE OtherCategories(Tail(cats), cat_id)

\* A mutant of LastCategoryLeft: the last category can be deleted too.
LastCategoryLeftNever(cats) == FALSE

\* delete_category: the guard "len(self.data['categories']) == 1".
LastCategoryLeft(cats) == Len(cats) = 1

\* A mutant of RepointedCurrent: the current category is left as it is.
RepointedCurrentKept(current, cat_id, remaining) == current

\* delete_category: the current category after the category cat_id is
\* removed and remaining are the categories left.
RepointedCurrent(current, cat_id, remaining) ==
    IF current = cat_id THEN remaining[1].id ELSE current

\* ChecklistApp.delete_category(cat_id); confirmed is the answer to the
\* "Delete this category and all its tasks?" prompt.  cat_id is the id of
\* the category whose delete button was pressed.
delete_category(cat_id, confirmed) ==
    /\ IF LastCategoryLeft(data.categories)
       THEN /\ dialog' = [title |-> "Cannot Delete",
                          reason |-> "Cannot delete the last category!"]
            /\ raised' = NoException
            /\ UNCHANGED <<data, disk_data>>
       ELSE IF ~confirmed
       THEN /\ dialog' = NoDialog
            /\ raised' = NoException
            /\ UNCHANGED <<data, disk_data>>
       ELSE LET remaining == OtherCategories(data.categories, cat_id) IN
            IF data.current_category = cat_id /\ remaining = <<>>
            THEN \* self.data['categories'][0] raises IndexError
                 /\ data' = [data EXCEPT !.categories = remaining]
                 /\ raised' = "IndexError"
                 /\ dialog' = NoDialog
                 /\ UNCHANGED disk_data
            ELSE LET new_data ==
                         [categories |-> remaining,
                          current_category |->
                              RepointedCurrent(data.current_category, cat_id, remaining)]
                 IN  /\ data' = new_data
                     /\ disk_data' = save_data(new_data)
                     /\ dialog' = NoDialog
                     /\ raised' = NoException
    /\ UNCHANGED <<data_file, recent_files, disk_recent, notAppVars>>

\* ChecklistApp.switch_category(cat_id): no save.
switch_category(cat_id) ==
    /\ data' = [data EXCEPT !.current_category = cat_id]
    /\ dialog' = NoDialog
    /\ raised' = NoException
    /\ UNCHANGED <<disk_data, data_file, recent_files, disk_recent, notAppVars>>

\* ChecklistApp.switch_category_by_index(idx), Ctrl+1..9
switch_category_by_index(idx) ==
    IF data.categories # <<>> /\ 0 <= idx /\ idx < Len(data.categories)
    THEN IF IsDict(data.categories[idx + 1])
         THEN switch_category(data.categories[idx + 1].id)
         ELSE \* self.data['categories'][idx]['id'] raises TypeError
              /\ raised' = "TypeError"
              /\ dialog' = NoDialog
              /\ UNCHANGED <<data, disk_data, data_file, recent_files,
                             disk_recent, notAppVars>>
    ELSE /\ raised' = NoException
         /\ dialog' = NoDialog
         /\ UNCHANGED <<data, disk_data, data_file, recent_files,
                        disk_recent, notAppVars>>

\* ChecklistApp.on_drag_release(event, target_index, cat_id), after
\* on_drag_start stored source_index and on_drag_motion set dragging;
\* cat_id is the id of the category at target_index.
on_drag_release(source_index, target_index, dragging) ==
    IF dragging /\ source_index # target_index
    THEN LET new_data ==
                 [data EXCEPT !.categories =
                     InsertAt(WithoutAt(data.categories, source_index + 1),
                              target_index, data.categories[source_index + 1])]
         IN  /\ data' = new_data
             /\ disk_data' = save_data(new_data)
             /\ dialog' = NoDialog
             /\ raised' = NoException
             /\ UNCHANGED <<data_file, recent_files, disk_recent, notAppVars>>
    ELSE IF ~dragging
    THEN switch_category(data.categories[target_index + 1].id)
    ELSE /\ dialog' = NoDialog
         /\ raised' = NoException
         /\ UNCHANGED <<data, disk_data, data_file, recent_files,
                        disk_recent, notAppVars>>

\* The task dict add_task_from_input builds.
NewTask(text, notes, now) ==
    [text |-> text, notes |-> notes, completed |-> FALSE, created |-> now]

\* ChecklistApp.add_task_from_input(): text is the first line of the
\* input, notes the other lines, now is datetime.now().isoformat().
add_task_from_input(text, notes, now) ==
    LET cur == CurrentCategoryLookup(data) IN
    IF text = "" \/ (cur.index = 0 /\ cur.raises = NoException)
    THEN /\ dialog' = NoDialog
         /\ raised' = NoException
         /\ UNCHANGED <<data, disk_data, data_file, recent_files,
                        disk_recent, notAppVars>>
    ELSE IF cur.raises # NoException
    THEN /\ dialog' = NoDialog
         /\ raised' = cur.raises
         /\ UNCHANGED <<data, disk_data, data_file, recent_files,
                        disk_recent, notAppVars>>
    ELSE LET new_data ==
                 [data EXCEPT !.categories[cur.index].tasks =
                                  Append(@, NewTask(text, notes, now))]
         IN  /\ TaskCount(data.categories) < MaxTasks
             /\ data' = new_data
             /\ disk_data' = save_data(new_data)
             /\ dialog' = NoDialog
             /\ raised' = NoException
             /\ UNCHANGED <<data_file, recent_files, disk_recent, notAppVars>>

\* ChecklistApp.toggle_task(idx)
toggle_task(idx) ==
    LET cur == CurrentCategoryLookup(data) IN
    IF cur.raises # NoException
    THEN /\ dialog' = NoDialog
         /\ raised' = cur.raises
         /\ UNCHANGED <<data, disk_data, data_file, recent_files,
                        disk_recent, notAppVars>>
    ELSE IF /\ cur.index # 0
            /\ idx < Len(data.categories[cur.index].tasks)
            /\ ~IsDict(data.categories[cur.index].tasks[idx + 1])
    THEN \* category['tasks'][idx]['completed'] raises TypeError
         /\ dialog' = NoDialog
         /\ raised' = "TypeError"
         /\ UNCHANGED <<data, disk_data, data_file, recent_files,
                        disk_recent, notAppVars>>
    ELSE IF cur.index # 0 /\ idx < Len(data.categories[cur.index].tasks)
    THEN LET new_data ==
                 [data EXCEPT !.categories[cur.index].tasks[idx + 1].completed = ~@]
         IN  /\ data' = new_data
             /\ disk_data' = save_data(new_data)
             /\ dialog' = NoDialog
             /\ raised' = NoException
             /\ UNCHANGED <<data_file, recent_files, disk_recent, notAppVars>>
    ELSE /\ dialog' = NoDialog
         /\ raised' = NoException
         /\ UNCHANGED <<data, disk_data, data_file, recent_files,
                        disk_recent, notAppVars>>

\* What open(filename) and json.load find in a file: a file that cannot
\* be read, text that is not JSON, or a JSON document.
Unreadable == [kind |-> "unreadable"]

InvalidJson == [kind |-> "invalid_json"]

ListRoot == [kind |-> "json", root |-> "list"]

\* A JSON object; categories is its 'categories' value when that is a list.
Document(has_categories, categories_is_list, cats, has_current, current) ==
    [kind |-> "json", root |-> "object",
     has_categories |-> has_categories,
     categories_is_list |-> categories_is_list,
     categories |-> cats,
     has_current |-> has_current, current_category |-> current]

\* A task written by an older version: a subtask without 'completed'.
LegacyTask ==
    [text |-> "task", notes |-> <<>>, completed |-> FALSE,
     created |-> "2025-01-01T09:00:00", subtasks |-> <<[text |-> "sub"]>>]

\* The files the application is given to load.
FileContents ==
    { Unreadable, InvalidJson, ListRoot,
      Document(FALSE, FALSE, <<>>, TRUE, 1),
      Document(TRUE, FALSE, <<>>, TRUE, 1),
      Document(TRUE, TRUE, <<>>, TRUE, NoId),
      Document(TRUE, TRUE,
               <<Category(2, "Discord", <<>>), Category(1, "Slack", <<>>)>>,
               TRUE, 1),
      Document(TRUE, TRUE,
               <<Category(2, "Discord", <<>>), Category(1, "Slack", <<>>)>>,
               FALSE, NoId),
      Document(TRUE, TRUE, <<Category(1, "Slack", <<LegacyTask>>)>>, TRUE, 1),
      Document(TRUE, TRUE, <<Junk>>, TRUE, 1),
      Document(TRUE, TRUE, <<Junk>>, FALSE, NoId),
      Document(TRUE, TRUE, <<Category(1, "Slack", <<Junk>>)>>, TRUE, 1) }

\* migrate_data: a subtask gets 'completed': False when it has none.
MigratedSubtask(subtask) ==
    IF "completed" \in DOMAIN subtask THEN subtask
    ELSE [text |-> subtask.text, completed |-> FALSE]

\* migrate_data: the body of the loop over the tasks of a category.
MigratedTask(task) ==
    IF "subtasks" \in DOMAIN task
    THEN [task EXCEPT !.subtasks = [i \in DOMAIN @ |-> MigratedSubtask(@[i])]]
    ELSE task

\* migrate_data: the loop over the tasks of a category; "'subtasks' in task"
\* raises TypeError at a task that is a number, and the tasks before it
\* are already migrated in place.
MigratedTasks(tasks) ==
    LET bad == {i \in DOMAIN tasks : ~IsDict(tasks[i])} IN
    [tasks |-> [i \in DOMAIN tasks |->
                   IF bad = {} \/ i < SetMin(bad)
                   THEN MigratedTask(tasks[i]) ELSE tasks[i]],
     raises |-> IF bad = {} THEN NoException ELSE "TypeError"]

\* migrate_data: what the loop raises at one category; category.get raises
\* AttributeError at a list element that is not a dict.
MigrationRaises(category) ==
    IF ~IsDict(category) THEN "AttributeError"
    ELSE MigratedTasks(category.tasks).raises

\* ChecklistApp.migrate_data() on the data d: the data it leaves, changed in
\* place up to the point where it raises, and the exception.
migrate_data(d) ==
    LET bad == {i \in DOMAIN d.categories :
                   MigrationRaises(d.categories[i]) # NoException}
    IN  [data |-> [d EXCEPT !.categories =
                      [i \in DOMAIN @ |->
                          IF (bad = {} \/ i <= SetMin(bad)) /\ IsDict(@[i])
                          THEN [@[i] EXCEPT !.tasks = MigratedTasks(@).tasks]
                          ELSE @[i]]],
         raises |-> IF bad = {} THEN NoException
                    ELSE MigrationRaises(d.categories[SetMin(bad)])]

\* The length settings['recent_files'] is cut to.
RecentLimit == 10

\* list.remove(filename): the list without the first filename.
RECURSIVE RemoveFirst(_, _)
RemoveFirst(files, filename) ==
    IF files = <<>> THEN <<>>
    ELSE IF Head(files) = filename THEN Tail(files)
         ELSE <<Head(files)>> \o RemoveFirst(Tail(files), filename)

\* ChecklistApp.add_to_recent_files(filename): the new recent_files.
add_to_recent_files(files, filename) ==
    LET moved == <<filename>> \o RemoveFirst(files, filename)
    IN  SubSeq(moved, 1, IF Len(moved) < RecentLimit THEN Len(moved)
                         ELSE RecentLimit)

\* load_checklist_file: the except clause; the previous data and file are
\* restored and the error is shown.
LoadRejected(reason) ==
    /\ dialog' = [title |-> "Error", reason |-> reason]
    /\ raised' = NoException
    /\ UNCHANGED <<data, data_file, disk_data, recent_files, disk_recent,
                   notAppVars>>

\* load_checklist_file: self.data after "self.data = loaded_data" and
\* migrate_data(), whatever migrate_data raises.
LoadedData(before, migrated) == migrated.data

\* ChecklistApp.load_checklist_file(filename); content is what the file
\* holds.  The file the application has open holds what was last written
\* to or read from it.
load_checklist_file(filename, content) ==
    /\ filename = data_file => content = disk_data
    /\ IF content.kind = "unreadable" THEN LoadRejected("IOError")
       ELSE IF content.kind = "invalid_json" THEN LoadRejected("JSONDecodeError")
       ELSE IF content.root # "object"
       THEN LoadRejected("Invalid checklist format: root must be an object")
       ELSE IF ~content.has_categories
       THEN LoadRejected("Invalid checklist format: missing 'categories' field")
       ELSE IF ~content.categories_is_list
       THEN LoadRejected("Invalid checklist format: 'categories' must be a list")
       ELSE IF /\ ~content.has_current \/ content.current_category = NoId
               /\ content.categories # <<>>
               /\ ~IsDict(content.categories[1])
       THEN \* loaded_data['categories'][0].get raises AttributeError
            /\ raised' = "AttributeError"
            /\ dialog' = NoDialog
            /\ UNCHANGED <<data, data_file, disk_data, recent_files,
                           disk_recent, notAppVars>>
       ELSE LET current ==
                    IF ~content.has_current \/ content.current_category = NoId
                    THEN IF content.categories # <<>>
                         THEN content.categories[1].id ELSE NoId
                    ELSE content.current_category
                migrated == migrate_data([categories |-> content.categories,
                                          current_category |-> current])
            IN  /\ data' = LoadedData(data, migrated)
                /\ data_file' = filename
                /\ disk_data' = content
                /\ dialog' = NoDialog
                /\ raised' = migrated.raises
                /\ IF migrated.raises = NoException
                   THEN /\ recent_files' = add_to_recent_files(recent_files, filename)
                        /\ disk_recent' = recent_files'
                   ELSE UNCHANGED <<recent_files, disk_recent>>
                /\ UNCHANGED notAppVars

(***************************************************************************)
(* ChecklistStorage (src/persistence/storage.py)                           *)
(***************************************************************************)

\* os.path.exists(self.file_path) is false.
Absent == [kind |-> "absent"]

\* A file whose JSON document is the dict.
JsonFile(dict) == [kind |-> "json", root |-> "object", dict |-> dict]

\* What the checklist file, or its '.backup' sibling, holds.
StoredFiles ==
    {Absent, Unreadable, InvalidJson, ListRoot} \cup {JsonFile(dict) : dict \in Dicts}

\* from_dict can build a checklist from the file.
Loadable(content) == content.kind = "json" /\ content.root = "object"

\* Category.to_dict()
CategoryToDict(category) ==
    [id |-> category.id, name |-> category.name,
     tasks |-> [i \in DOMAIN category.tasks |-> TaskToDict(category.tasks[i])]]

\* Checklist.to_dict(): every category with its id, name and tasks.
to_dict(cats, current) ==
    [categories |-> [i \in DOMAIN cats |-> CategoryToDict(cats[i])],
     current_category |-> current]

\* ChecklistStorage.save_checklist(checklist): True, the file holds the dict.
save_checklist ==
    /\ file' = JsonFile(to_dict(categories, current_category_id))
    /\ mret' = "True"
    /\ UNCHANGED <<categories, current_category_id, assigned, printed,
                   notModelStorageVars>>

\* ChecklistStorage.load_checklist(); backup is what the sibling '.backup'
\* file holds, which the method never opens.  None is returned when the
\* file is absent, and, after printing the error, when open, json.load or
\* from_dict raises.
load_checklist(backup) ==
    IF Loadable(file)
    THEN from_dict(file.dict)
    ELSE /\ mret' = "None"
         /\ printed' = IF file = Absent THEN printed
                       ELSE "Error loading checklist"
         /\ UNCHANGED <<categories, current_category_id, assigned, file,
                        notModelStorageVars>>

\* Another program writes, damages or removes the checklist file.
FileChanged(content) ==
    /\ file' = content
    /\ UNCHANGED <<printed, modelVars, notModelStorageVars>>

\* No checklist file yet, nothing printed.
StorageIdle == file = Absent /\ printed = ""

(***************************************************************************)
(* Reminder Scheduler (spec section 4.5)                                   *)
(*                                                                         *)
(* One scan runs to completion: every task of every category is visited,  *)
(* corrupted reminders are cleared, every triggered reminder is notified   *)
(* and cleared, and the checklist is saved and the caller signalled when   *)
(* anything fired or was corrupted.  The scan's now is the clock.  The     *)
(* corrupted reminders are reported as a count.                            *)
(***************************************************************************)

\* A reminder that does not parse as a timestamp.
Unparsable == "tomorrow"

\* The reminder parses: it is one of the timestamps.
Parses(reminder) == \E t \in DOMAIN ClockTimes : ClockTimes[t] = reminder

\* The time a reminder that parses stands for, as a position of the clock.
ParsedTime(reminder) == CHOOSE t \in DOMAIN ClockTimes : ClockTimes[t] = reminder

\* The reminder is set: it is not none.
IsSet(reminder) == reminder # NoneStr

\* Step 2: the reminder is set, parses and is not after now.
IsTriggered(t, now) ==
    IsSet(t.reminder) /\ Parses(t.reminder) /\ ParsedTime(t.reminder) <= now

\* Step 3: the reminder is set and does not parse.
IsCorrupted(t) == IsSet(t.reminder) /\ ~Parses(t.reminder)

\* Step 1: the positions <<category, task>> in the order of the visit.
RECURSIVE Visited(_, _)
Visited(cats, i) ==
    IF i > Len(cats) THEN <<>>
    ELSE [j \in 1..Len(cats[i].tasks) |-> <<i, j>>] \o Visited(cats, i + 1)

\* The positions of the triggered reminders, in the order they are queued.
Triggered(cats, now) ==
    LET Due(pos) == IsTriggered(cats[pos[1]].tasks[pos[2]], now)
    IN SelectSeq(Visited(cats, 1), Due)

\* The positions of the corrupted reminders.
Corrupted(cats) ==
    { pos \in {Visited(cats, 1)[k] : k \in DOMAIN Visited(cats, 1)} :
          IsCorrupted(cats[pos[1]].tasks[pos[2]]) }

\* A mutant of ClearedAfter: the reminder stays when the notification
\* raised.
ClearedAfterSuccess(reminder, triggered, corrupted, raised_for) ==
    IF corrupted \/ (triggered /\ ~raised_for) THEN NoneStr ELSE reminder

\* Steps 3 and 4: a corrupted reminder is cleared, and a triggered one is
\* cleared whether its notification succeeded or raised.
ClearedAfter(reminder, triggered, corrupted, raised_for) ==
    IF corrupted \/ triggered THEN NoneStr ELSE reminder

\* The categories at the end of a scan at now, raising: the positions whose
\* notification call raised.
Scanned(cats, now, raising) ==
    [i \in DOMAIN cats |->
        [cats[i] EXCEPT !.tasks =
            [j \in DOMAIN @ |->
                [@[j] EXCEPT !.reminder =
                    ClearedAfter(@, IsTriggered(cats[i].tasks[j], now),
                                 IsCorrupted(cats[i].tasks[j]),
                                 <<i, j>> \in raising)]]]]

\* A mutant of Notifications: the corrupted reminders are notified too.
NotificationsAndCorrupted(cats, now) ==
    LET Due(pos) == \/ IsTriggered(cats[pos[1]].tasks[pos[2]], now)
                    \/ IsCorrupted(cats[pos[1]].tasks[pos[2]])
        queued == SelectSeq(Visited(cats, 1), Due)
    IN [k \in DOMAIN queued |->
           [position |-> queued[k],
            title |-> cats[queued[k][1]].name,
            message |-> cats[queued[k][1]].tasks[queued[k][2]].text]]

\* Step 4: the notification calls of a scan, one for every queued
\* reminder: the title is derived from the category name and the message
\* is the task text (the texts of the model are shorter than 100
\* characters).
Notifications(cats, now) ==
    LET queued == Triggered(cats, now)
    IN [k \in DOMAIN queued |->
           [position |-> queued[k],
            title |-> cats[queued[k][1]].name,
            message |-> cats[queued[k][1]].tasks[queued[k][2]].text]]

\* Step 5: anything fired or was corrupted.
AnythingFound(cats, now) == Triggered(cats, now) # <<>> \/ Corrupted(cats) # {}

\* One scan; the notification calls for the positions in raising raise.
check_reminders(raising) ==
    /\ raising \subseteq {Triggered(categories, clock)[k] :
                             k \in DOMAIN Triggered(categories, clock)}
    /\ categories' = Scanned(categories, clock, raising)
    /\ scan' = [count |-> (scan.count + 1) % 2,
                notified |-> Notifications(categories, clock),
                raised |-> raising,
                corrupted |-> Cardinality(Corrupted(categories)),
                saved |-> AnythingFound(categories, clock),
                refresh |-> AnythingFound(categories, clock)]
    /\ file' = IF AnythingFound(categories, clock)
               THEN JsonFile(to_dict(categories', current_category_id))
               ELSE file
    /\ UNCHANGED <<current_category_id, mret, assigned, printed,
                   notModelStorageReminderVars>>

\* No scan yet.  count is the number of scans so far, modulo 2.
ReminderIdle ==
    scan = [count |-> 0, notified |-> <<>>, raised |-> {}, corrupted |-> 0,
            saved |-> FALSE, refresh |-> FALSE]

(***************************************************************************)
(* TaskSorter (src/features/task_sorting.py)                               *)
(*                                                                         *)
(* Tasks are dicts.  Python compares the due date strings character by     *)
(* character; DateOrder lists the dates of the model in that order.        *)
(***************************************************************************)

\* Lists of at most MaxSortLen tasks are sorted.
MaxSortLen == 3

DateOrder == <<"2025-01-01", "2025-02-01", "9999-12-31">>

\* The position of a date string in the order of strings.
DateRank(date) == CHOOSE k \in DOMAIN DateOrder : DateOrder[k] = date

\* A mutant of PriorityRank: the ranks reversed.
PriorityRankReversed(priority) ==
    IF priority = "high" THEN 2
    ELSE IF priority = "low" THEN 0
    ELSE 1

\* TaskSorter.PRIORITY_ORDER.get(priority, 1)
PriorityRank(priority) ==
    IF priority = "high" THEN 0
    ELSE IF priority = "low" THEN 2
    ELSE 1

\* smart_key(task): (completed, priority, due_date)
smart_key(t) ==
    << IF Get(t, "completed", FALSE) THEN 1 ELSE 0,
       PriorityRank(Get(t, "priority", "medium")),
       DateRank(IF Truthy(Get(t, "due_date", "9999-12-31"))
                THEN Get(t, "due_date", "9999-12-31")
                ELSE "9999-12-31") >>

\* key1 < key2 for tuples of three.
KeyLess(key1, key2) ==
    \/ key1[1] < key2[1]
    \/ key1[1] = key2[1] /\ key1[2] < key2[2]
    \/ key1[1] = key2[1] /\ key1[2] = key2[2] /\ key1[3] < key2[3]

\* list.sort(key=smart_key) is stable: an element goes behind the elements
\* before it whose key is not greater.
InsertedByKey(sorted, t) ==
    LET behind == {k \in DOMAIN sorted : KeyLess(smart_key(t), smart_key(sorted[k]))}
        at == IF behind = {} THEN Len(sorted) + 1
              ELSE CHOOSE k \in behind : \A l \in behind : k <= l
    IN SubSeq(sorted, 1, at - 1) \o <<t>> \o SubSeq(sorted, at, Len(sorted))

RECURSIVE SortedByKey(_)
SortedByKey(tasks) ==
    IF tasks = <<>> THEN <<>>
    ELSE InsertedByKey(SortedByKey(SubSeq(tasks, 1, Len(tasks) - 1)),
                       tasks[Len(tasks)])

\* TaskSorter.sort_smart(tasks): the list is sorted in place and returned.
sort_smart ==
    /\ ~sorter.called
    /\ sorter' = [sorter EXCEPT !.called = TRUE,
                                !.tasks = SortedByKey(sorter.tasks),
                                !.ret = SortedByKey(sorter.tasks)]
    /\ UNCHANGED notSortVars

\* The task dicts sorted: the task at position k of the list has the text
\* SortTexts[k].
SortTexts == <<"t1", "t2", "t3", "t4">>

SortedTask(text, completed, priority, due_date) ==
    [key \in {"text", "completed"}
             \cup (IF priority = NoneStr THEN {} ELSE {"priority"})
             \cup (IF due_date = "absent" THEN {} ELSE {"due_date"}) |->
        CASE key = "text" -> text
          [] key = "completed" -> completed
          [] key = "priority" -> priority
          [] key = "due_date" -> due_date]

\* The kinds of task sorted: completed, priority (None: no key), due date
\* ("absent": no key).
SortKinds ==
    { <<FALSE, "high", "2025-01-01">>, <<FALSE, "high", "2025-02-01">>,
      <<FALSE, "high", "absent">>, <<FALSE, "low", NoneStr>>,
      <<FALSE, NoneStr, "2025-02-01">>, <<FALSE, NoneStr, "absent">>,
      <<TRUE, "high", "absent">>, <<TRUE, "low", "2025-01-01">> }

SortLists ==
    UNION { { [k \in 1..n |->
                 SortedTask(SortTexts[k], f[k][1], f[k][2], f[k][3])] :
              f \in [1..n -> SortKinds] } :
            n \in 0..MaxSortLen }

\* A list to sort, not sorted yet.
SortStart ==
    \E tasks \in SortLists :
        sorter = [input |-> tasks, tasks |-> tasks, called |-> FALSE, ret |-> <<>>]

\* No list.
SortIdle == sorter = [input |-> <<>>, tasks |-> <<>>, called |-> FALSE, ret |-> <<>>]

(***************************************************************************)
(* TaskSearcher (src/features/search.py)                                   *)
(*                                                                         *)
(* A string is the sequence of its characters.  Categories and tasks are   *)
(* dicts.                                                                  *)
(***************************************************************************)

\* Queries of at most MaxQueryLen characters are searched for.
MaxQueryLen == 2

Chars == {"a", "A", "b", " "}

\* str.lower()
Lower(str) == [k \in DOMAIN str |-> IF str[k] = "A" THEN "a" ELSE str[k]]

\* str.strip()
RECURSIVE Strip(_)
Strip(str) ==
    IF str = <<>> THEN <<>>
    ELSE IF str[1] = " " THEN Strip(Tail(str))
    ELSE IF str[Len(str)] = " " THEN Strip(SubSeq(str, 1, Len(str) - 1))
    ELSE str

\* needle in hay
In(needle, hay) ==
    \E k \in 0..(Len(hay) - Len(needle)) :
        SubSeq(hay, k + 1, k + Len(needle)) = needle

\* A mutant of MatchType: the notes are looked at before the subtasks.
MatchTypeNotesFirst(query_lower, t) ==
    IF In(query_lower, Lower(Get(t, "text", <<>>))) THEN "task"
    ELSE IF \E k \in DOMAIN Get(t, "notes", <<>>) :
                In(query_lower, Lower(t.notes[k]))
    THEN "note"
    ELSE IF \E k \in DOMAIN Get(t, "subtasks", <<>>) :
                In(query_lower, Lower(Get(t.subtasks[k], "text", <<>>)))
    THEN "subtask"
    ELSE "None"

\* The match_type of the result appended for the task, None when none is:
\* the text, then the subtasks, then the notes.
MatchType(query_lower, t) ==
    IF In(query_lower, Lower(Get(t, "text", <<>>))) THEN "task"
    ELSE IF \E k \in DOMAIN Get(t, "subtasks", <<>>) :
                In(query_lower, Lower(Get(t.subtasks[k], "text", <<>>)))
    THEN "subtask"
    ELSE IF \E k \in DOMAIN Get(t, "notes", <<>>) :
                In(query_lower, Lower(t.notes[k]))
    THEN "note"
    ELSE "None"

\* The results appended for one category.
CategoryResults(cat, query_lower, include_completed) ==
    LET tasks == Get(cat, "tasks", <<>>)
        Appended(task_idx) ==
            /\ ~(~include_completed /\ Get(tasks[task_idx], "completed", FALSE))
            /\ MatchType(query_lower, tasks[task_idx]) # "None"
        indices == SelectSeq([k \in DOMAIN tasks |-> k], Appended)
    IN [k \in DOMAIN indices |->
           [category_id |-> cat.id, category_name |-> cat.name,
            task_idx |-> indices[k] - 1, task |-> tasks[indices[k]],
            match_type |-> MatchType(query_lower, tasks[indices[k]])]]

RECURSIVE SearchResults(_, _, _)
SearchResults(cats_to_search, query_lower, include_completed) ==
    IF cats_to_search = <<>> THEN <<>>
    ELSE CategoryResults(cats_to_search[1], query_lower, include_completed)
         \o SearchResults(Tail(cats_to_search), query_lower, include_completed)

\* cats_to_search
CatsToSearch(cats, category_id) ==
    IF category_id # NoId
    THEN LET Wanted(c) == c.id = category_id IN SelectSeq(cats, Wanted)
    ELSE cats

\* TaskSearcher.search_tasks(categories, query, category_id,
\* include_completed)
search_tasks ==
    /\ ~searcher.called
    /\ searcher' =
           [searcher EXCEPT
               !.called = TRUE,
               !.results =
                   IF Strip(Lower(searcher.query)) = <<>> THEN <<>>
                   ELSE SearchResults(
                            CatsToSearch(searcher.categories, searcher.category_id),
                            Strip(Lower(searcher.query)),
                            searcher.include_completed)]
    /\ UNCHANGED notSearchVars

\* The tasks searched: matching by the text, by a subtask and a note, by a
\* note only, and one without 'text'.
SearchedTasks ==
    << [text |-> <<"A", "b">>, completed |-> FALSE],
       [text |-> <<"b">>, completed |-> TRUE,
        subtasks |-> <<[text |-> <<"b">>], [text |-> <<"A">>]>>,
        notes |-> <<<<"a", " ", "b">>>>],
       [text |-> <<"b", " ", "b">>, completed |-> FALSE, notes |-> <<<<"A">>>>],
       [completed |-> TRUE, notes |-> <<<<"b">>, <<"a", "a">>>>] >>

\* The category lists searched; one has a category without 'tasks' and two
\* categories of one id.
SearchedCategories ==
    { << [id |-> 1, name |-> "Slack",
          tasks |-> <<SearchedTasks[1], SearchedTasks[2]>>],
         [id |-> 2, name |-> "Discord",
          tasks |-> <<SearchedTasks[3], SearchedTasks[1]>>] >>,
      << [id |-> 1, name |-> "Slack",
          tasks |-> <<SearchedTasks[2], SearchedTasks[3], SearchedTasks[4]>>] >>,
      << [id |-> 2, name |-> "Discord"],
         [id |-> 1, name |-> "Slack",
          tasks |-> <<SearchedTasks[4], SearchedTasks[2]>>],
         [id |-> 1, name |-> "Slack", tasks |-> <<SearchedTasks[1]>>] >> }

Queries == UNION {[1..n -> Chars] : n \in 0..MaxQueryLen}

\* The arguments of a search that has not run yet.
SearchStart ==
    \E cats \in SearchedCategories, query \in Queries,
       category_id \in {NoId, 1, 2, 3}, include_completed \in BOOLEAN :
        searcher = [categories |-> cats, query |-> query,
                    category_id |-> category_id,
                    include_completed |-> include_completed,
                    called |-> FALSE, results |-> <<>>]

\* No search.
SearchIdle ==
    searcher = [categories |-> <<>>, query |-> <<>>, category_id |-> NoId,
                include_completed |-> TRUE, called |-> FALSE, results |-> <<>>]

(***************************************************************************)
(* SettingsManager (src/persistence/settings.py)                           *)
(*                                                                         *)
(* Defaults.MAX_RECENT_FILES is 10 in the program; the model runs with a   *)
(* smaller limit so that lists longer than the limit are reached.          *)
(***************************************************************************)

MAX_RECENT_FILES == 3

\* The paths of the checklists the user opens.
RecentPaths == {"a.json", "b.json", "c.json", "d.json", "e.json"}

\* SettingsManager._get_default_settings()
DefaultSettings == [input_bg_color |-> "white", recent_files |-> <<>>]

\* dict.update(loaded): the keys of loaded replace those of the dict.
Updated(dict, loaded) ==
    [k \in DOMAIN dict \cup DOMAIN loaded |->
        IF k \in DOMAIN loaded THEN loaded[k] ELSE dict[k]]

\* p in recent_files
Listed(files, p) == \E i \in DOMAIN files : files[i] = p

\* recent_files.remove(file_path) after "if file_path in recent_files":
\* the list without the first occurrence of the path.
WithoutPath(files, p) ==
    IF Listed(files, p)
    THEN LET i == SetMin({k \in DOMAIN files : files[k] = p})
         IN  SubSeq(files, 1, i - 1) \o SubSeq(files, i + 1, Len(files))
    ELSE files

\* A mutant of FrontInserted: the path is appended.
BackInserted(files, p) == Append(files, p)

\* recent_files.insert(0, file_path)
FrontInserted(files, p) == <<p>> \o files

\* A mutant of KeepMax: the list is not cut.
KeepAll(files) == files

\* recent_files[:Defaults.MAX_RECENT_FILES]
KeepMax(files) ==
    SubSeq(files, 1, IF Len(files) < MAX_RECENT_FILES THEN Len(files)
                     ELSE MAX_RECENT_FILES)

\* The latest add_recent_file calls in a row, the last first: one more
\* than the list can hold are remembered.
AddedThen(p) ==
    SubSeq(<<p>> \o added, 1,
           IF Len(added) < MAX_RECENT_FILES + 1 THEN Len(added) + 1
           ELSE MAX_RECENT_FILES + 1)

\* SettingsManager.save_settings(): the file holds the settings.
save_settings(new_settings) == JsonFile(new_settings)

\* SettingsManager.add_recent_file(file_path)
add_recent_file(file_path) ==
    LET recent == KeepMax(FrontInserted(
                      WithoutPath(settings.recent_files, file_path), file_path))
        new_settings == [settings EXCEPT !.recent_files = recent]
    IN  /\ settings' = new_settings
        /\ settings_file' = save_settings(new_settings)
        /\ sret' = "None"
        /\ added' = AddedThen(file_path)
        /\ UNCHANGED <<existing, notSettingsVars>>

\* SettingsManager.remove_recent_file(file_path)
remove_recent_file(file_path) ==
    IF Listed(settings.recent_files, file_path)
    THEN LET new_settings ==
                 [settings EXCEPT !.recent_files = WithoutPath(@, file_path)]
         IN  /\ settings' = new_settings
             /\ settings_file' = save_settings(new_settings)
             /\ sret' = "True"
             /\ added' = <<>>
             /\ UNCHANGED <<existing, notSettingsVars>>
    ELSE /\ sret' = "False"
         /\ UNCHANGED <<settings, settings_file, existing, added,
                        notSettingsVars>>

\* SettingsManager.clear_recent_files()
clear_recent_files ==
    LET new_settings == [settings EXCEPT !.recent_files = <<>>] IN
    /\ settings' = new_settings
    /\ settings_file' = save_settings(new_settings)
    /\ sret' = "None"
    /\ added' = <<>>
    /\ UNCHANGED <<existing, notSettingsVars>>

\* [f for f in recent_files if os.path.exists(f)]
ExistingOf(files) == SelectSeq(files, LAMBDA f : f \in existing)

\* SettingsManager.cleanup_recent_files(): the number removed is returned.
cleanup_recent_files ==
    LET existing_files == ExistingOf(settings.recent_files)
        removed_count == Len(settings.recent_files) - Len(existing_files)
        new_settings == [settings EXCEPT !.recent_files = existing_files]
    IN  /\ IF removed_count > 0
           THEN /\ settings' = new_settings
                /\ settings_file' = save_settings(new_settings)
                /\ added' = <<>>
           ELSE UNCHANGED <<settings, settings_file, added>>
        /\ sret' = ToString(removed_count)
        /\ UNCHANGED <<existing, notSettingsVars>>

\* A settings file whose JSON document is a list of the items.
JsonList(items) == [kind |-> "json", root |-> "list", items |-> items]

\* A settings file whose JSON document is a number.
JsonScalar == [kind |-> "json", root |-> "scalar"]

\* A list item that is a [key, value] pair.
PairItem(key, value) == [pair |-> TRUE, key |-> key, value |-> value]

\* A list item that is a number.
NumberItem == [pair |-> FALSE]

\* dict.update(items) for a list: each [key, value] item sets its key; an
\* item that is not a pair raises, and the keys set before it stay set.
RECURSIVE UpdatedFromList(_, _)
UpdatedFromList(dict, items) ==
    IF items = <<>> THEN [settings |-> dict, exception |-> "None"]
    ELSE IF ~Head(items).pair
         THEN [settings |-> dict, exception |-> "TypeError"]
         ELSE UpdatedFromList(
                  [k \in DOMAIN dict \cup {Head(items).key} |->
                      IF k = Head(items).key THEN Head(items).value
                      ELSE dict[k]],
                  Tail(items))

\* open(settings_file), json.load(f) and settings.update(loaded_settings)
\* on a file that exists: the settings afterwards and the exception raised.
LoadedSettings(dict, content) ==
    IF content.kind = "unreadable"
    THEN [settings |-> dict, exception |-> "OSError"]
    ELSE IF content.kind = "invalid_json"
    THEN [settings |-> dict, exception |-> "JSONDecodeError"]
    ELSE IF content.root = "object"
    THEN [settings |-> Updated(dict, content.dict), exception |-> "None"]
    ELSE IF content.root = "list"
    THEN UpdatedFromList(dict, content.items)
    ELSE [settings |-> dict, exception |-> "TypeError"]

\* SettingsManager.load_settings(): False when the file is absent or when
\* open, json.load or update raises; otherwise True. The keys update has
\* set replace the current ones.
load_settings ==
    /\ IF settings_file = Absent
       THEN /\ settings' = settings
            /\ sret' = "False"
       ELSE LET loaded == LoadedSettings(settings, settings_file)
            IN  /\ settings' = loaded.settings
                /\ sret' = IF loaded.exception = "None" THEN "True"
                           ELSE "False"
    /\ added' = <<>>
    /\ UNCHANGED <<settings_file, existing, notSettingsVars>>

\* SettingsManager(settings_file): the defaults, then load_settings().
SettingsManager ==
    /\ IF settings_file = Absent
       THEN settings' = DefaultSettings
       ELSE settings' = LoadedSettings(DefaultSettings, settings_file).settings
    /\ sret' = "None"
    /\ added' = <<>>
    /\ UNCHANGED <<settings_file, existing, notSettingsVars>>

\* The settings file is written outside the program.
SettingsFileEdited(content) ==
    /\ settings_file' = content
    /\ UNCHANGED <<settings, existing, sret, added, notSettingsVars>>

\* except (json.JSONDecodeError, IOError, OSError)
CaughtByApp == {"JSONDecodeError", "OSError"}

\* ChecklistApp.load_settings() with the settings file holding content:
\* an exception of update is not among those the handler catches.
ChecklistApp_load_settings(content) ==
    LET loaded == LoadedSettings([input_bg_color |-> input_bg_color,
                                  recent_files |-> recent_files], content)
    IN  /\ IF content = Absent
           THEN /\ UNCHANGED <<input_bg_color, recent_files, disk_recent>>
                /\ raised' = NoException
           ELSE /\ input_bg_color' = loaded.settings.input_bg_color
                /\ recent_files' = loaded.settings.recent_files
                /\ disk_recent' =
                       IF /\ content.kind = "json"
                          /\ content.root = "object"
                          /\ "recent_files" \in DOMAIN content.dict
                       THEN content.dict.recent_files
                       ELSE disk_recent
                /\ raised' = IF loaded.exception \in CaughtByApp
                             THEN NoException
                             ELSE loaded.exception
        /\ UNCHANGED <<data, data_file, disk_data, dialog, notAppSettingsAppVars>>

\* The file at a path is deleted.
FileRemoved(p) ==
    /\ p \in existing
    /\ existing' = existing \ {p}
    /\ UNCHANGED <<settings, settings_file, sret, added, notSettingsVars>>

\* SettingsManager() without a settings file; every path has its file.
SettingsStart ==
    /\ settings = DefaultSettings
    /\ settings_file = Absent
    /\ existing = RecentPaths
    /\ sret = "None"
    /\ added = <<>>

SettingsIdle == SettingsStart

\* ChecklistApp.__init__: the default input colour.
AppSettingsIdle == input_bg_color = "white"

\* ChecklistApp.__init__ when no data file exists: load_data does nothing
\* and init_default_categories creates and saves the default categories.
AppStart ==
    /\ data = DefaultData
    /\ data_file = HomeFile
    /\ disk_data = save_data(DefaultData)
    /\ recent_files = <<>>
    /\ disk_recent = <<>>
    /\ dialog = NoDialog
    /\ raised = NoException

AppIdle == AppStart

\* Checklist(): no categories, no current category.
EmptyChecklist ==
    /\ categories = <<>>
    /\ current_category_id = NoId
    /\ assigned = {}

\* ChecklistStorage.create_default_checklist()
DefaultChecklist ==
    /\ categories = DefaultCategories
    /\ current_category_id = DefaultCategories[1].id
    /\ assigned = Ids(DefaultCategories)

ModelStart ==
    /\ EmptyChecklist \/ DefaultChecklist
    /\ mret = "None"

ModelIdle ==
    /\ EmptyChecklist
    /\ mret = "None"

UndoIdle ==
    /\ undo_stack = <<>>
    /\ redo_stack = <<>>
    /\ live = [cur |-> 1, cats |-> "x"]
    /\ hist = [n |-> 0, op |-> "init", arg |-> Value(LiveRef), ret |-> None]
    /\ log = EmptyLog

(***************************************************************************)
(* DragDropManager (src/features/drag_drop.py)                             *)
(*                                                                         *)
(* drag_data is modelled by its 'index': None, or Some(i) while category   *)
(* i is dragged.                                                           *)
(***************************************************************************)

\* reset_drag(): the drag_data of a manager that is not dragging.
NoDrag == [index |-> None]

\* DragDropManager.is_dragging()
is_dragging == drag_data.index # None

\* Checklist.get_category_count()
get_category_count(cats) == Len(cats)

\* What a DragDropManager call leaves in dret.
DragCall(op, ret, called) ==
    [n |-> 1 - dret.n, op |-> op, ret |-> ret, called |-> called]

\* A mutant of CanStartDrag: any index starts a drag.
CanStartDragAlways(cats, source_index) == TRUE

\* start_drag: the guard "0 <= source_index < get_category_count()".
CanStartDrag(cats, source_index) ==
    0 <= source_index /\ source_index < get_category_count(cats)

\* DragDropManager.start_drag(source_index)
start_drag(source_index) ==
    /\ IF CanStartDrag(categories, source_index)
       THEN drag_data' = [index |-> Some(source_index)]
       ELSE drag_data' = drag_data
    /\ dret' = DragCall("start_drag", "None", 0)
    /\ UNCHANGED <<on_reorder, notDragVars>>

\* DragDropManager.end_drag(target_index): the reorder is that of
\* Checklist.reorder_categories; on_reorder is called after a reorder that
\* succeeded, when there is a callback.
end_drag(target_index) ==
    LET source_index == drag_data.index[1]
    IN  /\ IF drag_data.index = None
           THEN /\ dret' = DragCall("end_drag", "False", 0)
                /\ UNCHANGED <<categories, mret>>
           ELSE IF source_index # target_index
           THEN LET success ==
                        CanReorder(categories, source_index, target_index)
                IN  /\ categories' =
                           IF success
                           THEN Reordered(categories, source_index, target_index)
                           ELSE categories
                    /\ mret' = IF success THEN "True" ELSE "False"
                    /\ dret' = DragCall("end_drag",
                                   IF success THEN "True" ELSE "False",
                                   IF success /\ on_reorder THEN 1 ELSE 0)
           ELSE /\ dret' = DragCall("end_drag", "False", 0)
                /\ UNCHANGED <<categories, mret>>
        /\ drag_data' = NoDrag
        /\ UNCHANGED <<current_category_id, assigned, on_reorder,
                       notModelDragVars>>

\* DragDropManager(checklist, on_reorder): with or without a callback.
DragStart ==
    /\ drag_data = NoDrag
    /\ on_reorder \in BOOLEAN
    /\ dret = [n |-> 0, op |-> "init", ret |-> "None", called |-> 0]

DragIdle ==
    /\ drag_data = NoDrag
    /\ on_reorder = FALSE
    /\ dret = [n |-> 0, op |-> "init", ret |-> "None", called |-> 0]

(***************************************************************************)
(* Specifications                                                          *)
(***************************************************************************)

UndoInit == UndoStart /\ ModelIdle /\ AppIdle /\ StorageIdle /\ SettingsIdle /\ TaskIdle /\ DragIdle /\ AppSettingsIdle /\ SearchIdle /\ SortIdle /\ ReminderIdle

UndoNext ==
    \/ \E d \in Descriptions : record_state(d)
    \/ undo
    \/ redo
    \/ clear
    \/ \E v \in CurValues : MutateTop(v)
    \/ \E v \in CatsValues : MutateNested(v)

SpecUndo == UndoInit /\ [][UndoNext]_vars


\* Indices given to reorder_categories: every valid index and one
\* out-of-range index at each end.
ReorderIndices == -1 .. Len(categories)

ModelInit == ModelStart /\ UndoIdle /\ AppIdle /\ StorageIdle /\ SettingsIdle /\ TaskIdle /\ DragIdle /\ AppSettingsIdle /\ SearchIdle /\ SortIdle /\ ReminderIdle

\* The Checklist under add (with the next id), remove, select and reorder.
ModelNext ==
    \/ \E name \in CategoryNames : add_category(name)
    \/ \E id \in 1..MaxCategoryId : remove_category(id)
    \/ \E id \in 1..MaxCategoryId : set_current_category(id)
    \/ \E i \in ReorderIndices, j \in ReorderIndices : reorder_categories(i, j)

SpecModel == ModelInit /\ [][ModelNext]_vars

\* The categories of a checklist removed and moved.
ReorderNext ==
    \/ \E id \in 1..MaxCategoryId : remove_category(id)
    \/ \E i \in ReorderIndices, j \in ReorderIndices : reorder_categories(i, j)

SpecReorder == ModelInit /\ [][ReorderNext]_vars

\* The same, with from_dict.
ChecklistNext ==
    \/ ModelNext
    \/ \E dict \in Dicts : from_dict(dict)

SpecChecklist == ModelInit /\ [][ChecklistNext]_vars

\* What the '.backup' sibling holds: nothing, or a checklist.
BackupFiles ==
    {Absent,
     JsonFile([categories |-> <<[id |-> 1, name |-> "Slack"]>>,
               current_category |-> 1])}

\* The storage: checklists are built and selected in, saved and loaded,
\* and the file changes under the program.
StorageNext ==
    \/ \E dict \in Dicts : from_dict(dict)
    \/ \E category_id \in 1 .. 2 : set_current_category(category_id)
    \/ save_checklist
    \/ \E backup \in BackupFiles : load_checklist(backup)
    \/ \E content \in StoredFiles : FileChanged(content)

SpecStorage == ModelInit /\ [][StorageNext]_vars

\* Dicts of checklists with tasks: one task of every kind, and two tasks
\* in the second category.
TaskedDicts ==
    { [categories |-> <<[id |-> 1, name |-> "Slack", tasks |-> <<dict>>]>>,
       current_category |-> 1] : dict \in TaskDicts }
    \cup { [categories |->
                <<[id |-> 2, name |-> "Discord", tasks |-> <<>>],
                  [id |-> 1, name |-> "Slack", tasks |-> <<d1, d2>>]>>,
            current_category |-> NoId] :
                d1 \in {dict \in TaskDicts : "subtasks" \in DOMAIN dict},
                d2 \in {dict \in TaskDicts : "created" \notin DOMAIN dict} }

\* Checklists with tasks are built, saved and loaded as time passes, and
\* the file changes under the program.
RoundTripNext ==
    \/ \E dict \in TaskedDicts : from_dict(dict)
    \/ save_checklist
    \/ load_checklist(Absent)
    \/ \E content \in {Absent, InvalidJson}
                        \cup {JsonFile(dict) : dict \in TaskedDicts} :
           FileChanged(content)
    \/ Tick

SpecRoundTrip == ModelInit /\ [][RoundTripNext]_vars

AppInit == AppStart /\ UndoIdle /\ ModelIdle /\ StorageIdle /\ SettingsIdle /\ TaskIdle /\ DragIdle /\ AppSettingsIdle /\ SearchIdle /\ SortIdle /\ ReminderIdle

\* Positions (from 0) of the category buttons.
ButtonIndices == 0 .. (Len(data.categories) - 1)

\* The application's category and task handlers.
AppNext ==
    \/ \E idx \in 0 .. Len(data.categories) : switch_category_by_index(idx)
    \/ \E i \in DOMAIN data.categories, confirmed \in BOOLEAN :
           delete_category(data.categories[i].id, confirmed)
    \/ \E i \in ButtonIndices, j \in ButtonIndices, dragging \in BOOLEAN :
           on_drag_release(i, j, dragging)
    \/ \E text \in TaskTexts, now \in Timestamps :
           add_task_from_input(text, <<>>, now)

SpecApp == AppInit /\ [][AppNext]_vars

\* Opening files, and the handlers that work on the loaded checklist.
LoadNext ==
    \/ \E filename \in Files, content \in FileContents \cup {disk_data} :
           load_checklist_file(filename, content)
    \/ \E idx \in 0 .. Len(data.categories) : switch_category_by_index(idx)
    \/ \E text \in TaskTexts, now \in Timestamps :
           add_task_from_input(text, <<>>, now)
    \/ \E idx \in 0 .. MaxTasks : toggle_task(idx)

SpecLoad == AppInit /\ [][LoadNext]_vars


SettingsInit == SettingsStart /\ UndoIdle /\ ModelIdle /\ AppIdle /\ StorageIdle /\ TaskIdle /\ DragIdle /\ AppSettingsIdle /\ SearchIdle /\ SortIdle /\ ReminderIdle

\* The recent files list under the calls that change it.
RecentNext ==
    \/ \E p \in RecentPaths : add_recent_file(p)
    \/ \E p \in RecentPaths : remove_recent_file(p)
    \/ clear_recent_files

SpecRecent == SettingsInit /\ [][RecentNext]_vars

\* The settings over restarts of the program, with files being deleted.
SettingsNext ==
    \/ \E p \in RecentPaths : add_recent_file(p)
    \/ \E p \in RecentPaths : FileRemoved(p)
    \/ cleanup_recent_files
    \/ load_settings
    \/ SettingsManager

SpecSettings == SettingsInit /\ [][SettingsNext]_vars

TaskInitial ==
    TaskStart /\ UndoIdle /\ ModelIdle /\ AppIdle /\ StorageIdle /\ SettingsIdle /\ ReminderIdle /\ SortIdle /\ SearchIdle /\ AppSettingsIdle /\ DragIdle

\* Tasks constructed, serialized and deserialized as time passes.
TaskNext ==
    \/ \E completed \in BOOLEAN, notes \in TaskNotes, subtasks \in TaskSubtasks,
          created \in TaskCreated, priority \in TaskPriorities,
          due_date \in TaskDueDates, reminder \in TaskReminders :
           Task_init("task", completed, notes, subtasks, created, priority,
                     due_date, reminder)
    \/ Task_to_dict
    \/ Task_from_dict
    \/ \E dict \in TaskDicts : ReadTaskDict(dict)
    \/ Tick

SpecTask == TaskInitial /\ [][TaskNext]_vars

\* The reminders of the tasks read from files: none, timestamps, and one
\* that does not parse.
Reminders == {NoneStr, ClockTimes[2], ClockTimes[3], Unparsable}

ReminderTask(text, reminder) ==
    IF reminder = NoneStr
    THEN [text |-> text, completed |-> FALSE, created |-> "2024-12-31T08:00:00"]
    ELSE [text |-> text, completed |-> FALSE, created |-> "2024-12-31T08:00:00",
          reminder |-> reminder]

\* Dicts of checklists whose tasks have reminders.
ReminderDicts ==
    { [categories |->
          <<[id |-> 1, name |-> "Slack",
             tasks |-> <<ReminderTask("task", r1), ReminderTask("other", r2)>>],
            [id |-> 2, name |-> "Discord",
             tasks |-> <<ReminderTask("task", r3)>>]>>,
       current_category |-> 1] :
          r1 \in Reminders, r2 \in Reminders, r3 \in {NoneStr, ClockTimes[2]} }

\* The positions of the tasks a notification call can raise for.
ReminderPositions == {<<1, 1>>, <<1, 2>>, <<2, 1>>}

\* Checklists with reminders are read, time passes, and the scan runs.
ReminderNext ==
    \/ \E dict \in ReminderDicts : from_dict(dict)
    \/ \E raising \in SUBSET ReminderPositions : check_reminders(raising)
    \/ Tick

SpecReminder == ModelInit /\ [][ReminderNext]_vars

SortInit ==
    /\ SortStart /\ UndoIdle /\ ModelIdle /\ AppIdle /\ StorageIdle
    /\ SettingsIdle /\ TaskIdle /\ DragIdle /\ AppSettingsIdle /\ ReminderIdle /\ SearchIdle

SortNext == sort_smart

SpecSort == SortInit /\ [][SortNext]_vars

SearchInit ==
    /\ SearchStart /\ UndoIdle /\ ModelIdle /\ AppIdle /\ StorageIdle
    /\ SettingsIdle /\ TaskIdle /\ DragIdle /\ AppSettingsIdle /\ ReminderIdle /\ SortIdle

SearchNext == search_tasks

SpecSearch == SearchInit /\ [][SearchNext]_vars

\* Dicts of checklists with completed and pending tasks: three tasks, the
\* second with two subtasks, in the first category and one in the second.
CompletionTask(text, completed) ==
    [text |-> text, completed |-> completed, created |-> "2024-12-31T08:00:00"]

CompletionDicts ==
    { [categories |->
          <<[id |-> 1, name |-> "Slack",
             tasks |-> <<CompletionTask("t1", c1),
                         [text |-> "t2", completed |-> c2,
                          created |-> "2024-12-31T08:00:00",
                          subtasks |-> <<[text |-> "s1", completed |-> TRUE],
                                         [text |-> "s2", completed |-> FALSE]>>],
                         CompletionTask("t3", c3)>>],
            [id |-> 2, name |-> "Discord",
             tasks |-> <<CompletionTask("t4", TRUE)>>]>>,
       current_category |-> 1] : c1 \in BOOLEAN, c2 \in BOOLEAN, c3 \in BOOLEAN }

\* Tasks and subtasks are toggled and the completed tasks cleared.
CategoryNext ==
    \/ \E dict \in CompletionDicts : from_dict(dict)
    \/ \E i \in 1..2 : clear_completed(i)
    \/ \E i \in 1..2, j \in 1..3 : toggle_completion(i, j)
    \/ \E i \in 1..2, j \in 1..3, k \in 1..2 : Subtask_toggle_completion(i, j, k)

SpecCategory == ModelInit /\ [][CategoryNext]_vars

(***************************************************************************)
(* History Manager: properties                                             *)
(***************************************************************************)

\* The manager was empty, then record_state(S1), record_state(S2) and
\* undo(S2) were called, with S1 different from S2.
RecordedTwiceThenUndo ==
    /\ ~log.full
    /\ Len(log.calls) = 3
    /\ log.calls[1].op = "record_state"
    /\ log.calls[2].op = "record_state"
    /\ log.calls[3].op = "undo"
    /\ log.calls[3].arg = log.calls[2].arg
    /\ hist.op = "undo"

\* C1 (as stated): after record_state(S1), record_state(S2) on an empty
\* manager, undo(S2) returns S1.
C1_UndoReturnsFirst ==
    RecordedTwiceThenUndo => hist.ret = Some(log.calls[1].arg)

\* C1 (amended): after record_state(S1), record_state(S2) on an empty
\* manager, undo(S2) returns the snapshot recorded last, S2, and S1 is left
\* on top of the undo stack.
C1_UndoReturnsLast ==
    RecordedTwiceThenUndo =>
        /\ hist.ret = Some(log.calls[2].arg)
        /\ StackValues(undo_stack) = <<log.calls[1].arg>>

C1_Witness ==
    /\ RecordedTwiceThenUndo
    /\ log.calls[1].arg # log.calls[2].arg
    /\ hist.ret = Some(log.calls[2].arg)

\* A step that is a call of the manager's operation op.
IsCall(op) == hist'.n # hist.n /\ hist'.op = op

\* C2: every record_state call leaves the redo stack empty: while
\* record_state is the last call made, can_redo() is false, and a redo
\* called next returns None.
C2_RecordClearsRedo ==
    [][ /\ IsCall("record_state") => redo_stack' = <<>>
        /\ (hist.op = "record_state" /\ IsCall("redo")) => hist'.ret = None
      ]_vars

\* A record_state was undone, then record_state was called again.
C2_Witness ==
    /\ hist.op = "record_state"
    /\ ~log.full
    /\ Len(log.calls) = 3
    /\ log.calls[1].op = "record_state"
    /\ log.calls[2].op = "undo"
    /\ log.calls[3].op = "record_state"
    /\ redo_stack = <<>>
    /\ undo_stack # <<>>

\* C3: the undo stack never holds more than max_history entries, and a
\* record_state on a full stack discards the oldest entry: the stack then
\* holds the previous entries but the first, followed by the new snapshot.
C3_UndoStackCapped ==
    [][ /\ Len(undo_stack') <= max_history
        /\ IsCall("record_state") =>
              StackValues(undo_stack') =
                  Append(IF Len(undo_stack) = max_history
                         THEN Tail(StackValues(undo_stack))
                         ELSE StackValues(undo_stack),
                         hist'.arg)
      ]_vars

C3_Witness ==
    /\ hist.op = "record_state"
    /\ Len(undo_stack) = max_history
    /\ log.full
    /\ StackValues(undo_stack)[1] # StackValues(undo_stack)[max_history]

\* C4: after a successful undo(current) redo is available and a redo called
\* next returns current; after a successful redo(current2) an undo called
\* next returns current2.
C4_UndoRedoMirror ==
    [][ /\ (hist.op = "undo" /\ hist.ret # None) =>
              /\ redo_stack # <<>>
              /\ IsCall("redo") => hist'.ret = Some(hist.arg)
        /\ (hist.op = "redo" /\ hist.ret # None) =>
              /\ undo_stack # <<>>
              /\ IsCall("undo") => hist'.ret = Some(hist.arg)
      ]_vars

\* A state was recorded, undone with another current state, and redone.
C4_Witness ==
    /\ ~log.full
    /\ Len(log.calls) = 3
    /\ log.calls[1].op = "record_state"
    /\ log.calls[2].op = "undo"
    /\ log.calls[3].op = "redo"
    /\ log.calls[2].arg # log.calls[1].arg
    /\ log.calls[3].arg # log.calls[2].arg
    /\ hist.ret = Some(log.calls[2].arg)
    /\ undo_stack # <<>>

\* C5: a mutation of the live state, of its top-level field or of its
\* nested part, leaves every stored snapshot unchanged, so an undo or redo
\* returns the state as it was when it was stored.
C5_SnapshotsIsolated ==
    [][ /\ live' # live =>
              /\ StackValues(undo_stack') = StackValues(undo_stack)
              /\ StackValues(redo_stack') = StackValues(redo_stack)
        /\ (IsCall("undo") /\ hist'.ret # None) =>
              hist'.ret = Some(StackValues(undo_stack)[Len(undo_stack)])
        /\ (IsCall("redo") /\ hist'.ret # None) =>
              hist'.ret = Some(StackValues(redo_stack)[Len(redo_stack)])
      ]_vars

C5_Witness ==
    /\ hist.op = "undo"
    /\ hist.ret # None
    /\ ~log.full
    /\ Len(log.calls) = 2
    /\ log.calls[1].op = "record_state"
    /\ hist.ret = Some(log.calls[1].arg)
    /\ log.calls[1].arg.cur # log.calls[2].arg.cur
    /\ log.calls[1].arg.cats # log.calls[2].arg.cats

(***************************************************************************)
(* Checklist: properties                                                   *)
(***************************************************************************)

\* The categories of a list, as a set.
Members(cats) == {cats[i] : i \in DOMAIN cats}

\* A step that adds a category with the next id.
IsAddCategory == \E name \in CategoryNames : add_category(name)

\* The category a step of IsAddCategory has added.
Added == categories'[Len(categories')]

\* C6 (as stated): an id once assigned to a category is never assigned to
\* a category created later.
C6_IdNeverReused ==
    [][IsAddCategory => Added.id \notin assigned]_vars

\* C6 (amended): a new category gets an id greater than the id of every
\* category present, so an id is assigned again only after the category
\* that held it and every category with a larger id have been removed.
C6_NewIdAboveAllPresent ==
    [][IsAddCategory =>
          /\ \A c \in Members(categories) : c.id < Added.id
          /\ Added.id \in assigned =>
                \A n \in assigned : n >= Added.id => ~HasCategory(categories, n)
      ]_vars

\* A category created in the session holds the id of a default category.
C6_Witness ==
    \E c \in Members(categories) :
        /\ c.name \in CategoryNames
        /\ c.id \in Ids(DefaultCategories)

\* C7: no two categories of the checklist have the same id, and a step
\* changes the id of no category: every category present after a step was
\* present before it, or is the category just added.
C7_UniqueStableIds ==
    /\ [](\A i, j \in DOMAIN categories :
              categories[i].id = categories[j].id => i = j)
    /\ [][\A i \in DOMAIN categories' :
              \/ categories'[i] \in Members(categories)
              \/ IsAddCategory /\ i = Len(categories')
         ]_vars

\* Categories were removed, one was added and the order was changed.
C7_Witness ==
    /\ Len(categories) = 3
    /\ categories[1].id > categories[2].id
    /\ categories[3].name \in CategoryNames
    /\ categories[3].id < categories[1].id

\* current_category_id is None or the id of a category of the checklist.
CurrentValid ==
    current_category_id = NoId \/ HasCategory(categories, current_category_id)

\* C8 (as stated): in every reachable state current_category_id is none or
\* the id of a category present.
C8_CurrentAlwaysValid == CurrentValid

\* C8 (amended): current_category_id stops being none or the id of a
\* category present only by remove_category of the current category, which
\* leaves current_category_id as it was, or by from_dict, which takes
\* 'current_category' from the dict as it is; add_category,
\* reorder_categories, set_current_category and remove_category of another
\* category keep it, and it changes only by a set_current_category of a
\* category present or by from_dict.
C8_CurrentValidKept ==
    [][ /\ (CurrentValid /\ ~CurrentValid') =>
              \/ remove_category(current_category_id)
              \/ \E dict \in Dicts : from_dict(dict)
        /\ current_category_id' # current_category_id =>
              \/ /\ set_current_category(current_category_id')
                 /\ HasCategory(categories, current_category_id')
              \/ \E dict \in Dicts : from_dict(dict)
      ]_vars

\* Another category than the first was selected, then some other removed.
C8_Witness ==
    /\ mret = "Category"
    /\ current_category_id \notin {NoId, 1}
    /\ HasCategory(categories, current_category_id)

(***************************************************************************)
(* ChecklistApp: properties                                                *)
(***************************************************************************)

IsFailedLoad ==
    /\ \E filename \in Files, content \in FileContents \cup {disk_data} :
           load_checklist_file(filename, content)
    /\ dialog'.title = "Error" \/ raised' # NoException

\* C10: loading a checklist file is all-or-nothing: after every
\* load_checklist_file call that fails, the checklist data and the data
\* file path are those before the call and an error is reported (by the
\* error dialog or by the exception the call ends with); for a root that
\* is a list the error names "root must be an object".
C10_LoadAllOrNothing ==
    [][IsFailedLoad =>
          /\ data' = data
          /\ data_file' = data_file
          /\ load_checklist_file("other.json", ListRoot) =>
                 dialog'.reason = "Invalid checklist format: root must be an object"
      ]_vars

(***************************************************************************)
(* Loading: properties                                                     *)
(***************************************************************************)

\* C11: after a successful load of a checklist whose 'current_category' is
\* absent or null, current_category_id is the id of the first category of
\* the file, or None when the file has no categories.
C11_CurrentDefaultedOnLoad ==
    [][\A dict \in Dicts :
          (from_dict(dict) /\ DictGet(dict, "current_category") = NoId) =>
              current_category_id' = IF categories' = <<>> THEN NoId
                                     ELSE categories'[1].id
      ]_vars

\* C12: when reading or parsing the checklist file fails at load and the
\* sibling '.backup' file is loadable, the resulting checklist is the one
\* stored in the backup; only without a loadable backup is the result an
\* empty checklist.
C12_RecoveredFromBackup ==
    [][\A backup \in BackupFiles :
          (file \in {Unreadable, InvalidJson} /\ load_checklist(backup)) =>
              IF Loadable(backup)
              THEN from_dict(backup.dict)
              ELSE categories' = <<>> /\ current_category_id' = NoId
      ]_vars

\* C13: every handler that changes the checklist saves it before it
\* returns, so between handlers the checklist file holds the in-memory
\* checklist (categories and current_category).
C13_SavedAfterEveryChange == disk_data = save_data(data)

(***************************************************************************)
(* Checklist: reordering                                                   *)
(***************************************************************************)

\* C14: reorder_categories(i, j) with i = j or an index outside
\* [0, count) returns False and leaves the order unchanged; otherwise it
\* returns True, the category that was at index i is at index j, the count
\* is unchanged and the other categories keep their relative order.
C14_Reorder ==
    [][mret' \in {"True", "False"} =>
          \A i \in ReorderIndices, j \in ReorderIndices :
              reorder_categories(i, j) =>
                  IF i = j \/ i < 0 \/ j < 0
                     \/ i >= Len(categories) \/ j >= Len(categories)
                  THEN mret' = "False" /\ categories' = categories
                  ELSE /\ mret' = "True"
                       /\ categories'[j + 1] = categories[i + 1]
                       /\ Len(categories') = Len(categories)
                       /\ WithoutAt(categories', j + 1) = WithoutAt(categories, i + 1)
      ]_vars

\* A category has been moved: the last reorder succeeded and three or more
\* categories are no longer in the order of their creation.
C14_Witness ==
    /\ mret = "True"
    /\ Len(categories) >= 3
    /\ categories[1].id > categories[3].id

(***************************************************************************)
(* SettingsManager: properties                                             *)
(***************************************************************************)

\* No path occurs twice in the list.
NoDuplicates(files) ==
    \A i \in DOMAIN files, j \in DOMAIN files : files[i] = files[j] => i = j

\* C15: after any sequence of add_recent_file, remove_recent_file and
\* clear_recent_files calls from the default settings, the recent files
\* list has no duplicate path and at most MAX_RECENT_FILES entries.
C15_RecentBounded ==
    /\ NoDuplicates(settings.recent_files)
    /\ Len(settings.recent_files) <= MAX_RECENT_FILES

\* More paths than the list holds have been added and the list is full.
C15_Witness ==
    /\ Len(added) > MAX_RECENT_FILES
    /\ Len(settings.recent_files) = MAX_RECENT_FILES

\* C16: after add_recent_file(p), p is at index 0 and the other entries
\* keep their previous relative order, an already listed p being moved and
\* not duplicated; so once more distinct paths than the list holds have
\* been added, the list is the most recently added ones, most recent
\* first.
C16_MostRecentFirst ==
    /\ [][\A p \in RecentPaths :
             add_recent_file(p) =>
                 LET others == SelectSeq(settings.recent_files, LAMBDA f : f # p)
                     after == settings'.recent_files
                 IN  /\ after[1] = p
                     /\ Tail(after) = SubSeq(others, 1, Len(after) - 1)
                     /\ Len(after) = IF Len(others) < MAX_RECENT_FILES
                                     THEN Len(others) + 1
                                     ELSE MAX_RECENT_FILES
        ]_vars
    /\ []((Len(added) > MAX_RECENT_FILES /\ NoDuplicates(added)) =>
             settings.recent_files = SubSeq(added, 1, MAX_RECENT_FILES))

\* One more distinct path than the list holds has been added, and the
\* list is made of the latest of them, the oldest having dropped out.
C16_Witness ==
    /\ Len(added) > MAX_RECENT_FILES
    /\ NoDuplicates(added)
    /\ settings.recent_files = SubSeq(added, 1, MAX_RECENT_FILES)
    /\ ~Listed(settings.recent_files, added[Len(added)])

\* C17: when the settings are loaded, every recent files entry whose file
\* no longer exists is removed and the pruned list is written back at
\* once: after a load the list in memory and the list in the settings file
\* hold only existing files.
C17_PrunedOnLoad ==
    [][(load_settings \/ SettingsManager) =>
          /\ \A i \in DOMAIN settings'.recent_files :
                 settings'.recent_files[i] \in existing'
          /\ Loadable(settings_file') =>
                 \A i \in DOMAIN settings_file'.dict.recent_files :
                     settings_file'.dict.recent_files[i] \in existing'
      ]_vars

(***************************************************************************)
(* Task: properties                                                        *)
(***************************************************************************)

Priorities == {"low", "medium", "high"}

\* C19: Task.from_dict yields a task whose priority is one of low, medium
\* and high: the value of the dict when that is one of the three, medium
\* when the dict has no 'priority' or an unrecognized one.
C19_PriorityRecognized ==
    [][Task_from_dict =>
          /\ task_obj'.priority \in Priorities
          /\ task_obj'.priority =
                 IF Get(tdict, "priority", "medium") \in Priorities
                 THEN Get(tdict, "priority", "medium")
                 ELSE "medium"
      ]_vars

\* C20: the created of a task read from a dict is what reading the same
\* dict at any earlier time gave: Task.from_dict never assigns a fresh
\* timestamp.
C20_CreatedNotRecomputed ==
    [][Task_from_dict =>
          \A t \in 1..clock :
              TaskFromDict(tdict, ClockTimes[t]).created = task_obj'.created
      ]_vars

\* What a task is restored to: an empty due date or reminder is left out
\* of the dict and comes back as None.
RestoredTask(t) ==
    [t EXCEPT !.due_date = IF Truthy(@) THEN @ ELSE NoneStr,
              !.reminder = IF Truthy(@) THEN @ ELSE NoneStr]

RestoredCategories(cats) ==
    [i \in DOMAIN cats |->
        [cats[i] EXCEPT !.tasks = [j \in DOMAIN @ |-> RestoredTask(@[j])]]]

\* C18: the checklist made from the dict of a checklist, at whatever time,
\* has the same current category and the same categories in the same
\* order, with the same ids, names and tasks, every field of every task
\* the same but an empty due date or reminder, which is restored to None;
\* and a load that finds the file that save_checklist wrote of the
\* checklist yields that checklist.
C18_RoundTrip ==
    /\ [](\A t \in 1..MaxClock :
              LET dict == to_dict(categories, current_category_id) IN
              /\ CategoriesFromDict(dict, ClockTimes[t])
                     = RestoredCategories(categories)
              /\ DictGet(dict, "current_category") = current_category_id)
    /\ [][(/\ file = JsonFile(to_dict(categories, current_category_id))
           /\ load_checklist(Absent))
              => /\ categories' = RestoredCategories(categories)
                 /\ current_category_id' = current_category_id
                 /\ mret' = "Checklist"
      ]_vars

\* A checklist was loaded from the file that holds its dict: only a load of
\* a saved checklist yields the task with subtasks and a high priority
\* whose empty due date is restored to None.  Its other task was created,
\* without a timestamp in its dict, at an earlier time of the clock.
C18_Witness ==
    /\ mret = "Checklist"
    /\ file = JsonFile(to_dict(categories, current_category_id))
    /\ \E i \in DOMAIN categories :
           /\ \E j \in DOMAIN categories[i].tasks :
                  /\ categories[i].tasks[j].priority = "high"
                  /\ categories[i].tasks[j].subtasks # <<>>
                  /\ categories[i].tasks[j].due_date = NoneStr
           /\ \E j \in DOMAIN categories[i].tasks :
                  /\ categories[i].tasks[j].priority = "medium"
                  /\ categories[i].tasks[j].created = ClockTimes[1]
                  /\ clock > 1

(***************************************************************************)
(* Reminder Scheduler: properties                                          *)
(***************************************************************************)

\* A step is a scan exactly when it changes the count of scans.
IsScan == scan'.count # scan.count

TaskAt(cats, pos) == cats[pos[1]].tasks[pos[2]]

AllPositions(cats) ==
    {pos \in (1..Len(cats)) \X (1..2) : pos[2] <= Len(cats[pos[1]].tasks)}

\* C21: at the end of a scan no task carries a reminder that does not
\* parse or whose time is not after the scan's now, also when the
\* notification for it raised; a task whose reminder is in the future, or
\* none, is as it was; so nothing is due at the end of the scan.
C21_NoStaleReminder ==
    [][IsScan =>
          /\ Len(categories') = Len(categories)
          /\ \A pos \in AllPositions(categories) :
                 LET before == TaskAt(categories, pos)
                     after == TaskAt(categories', pos)
                 IN /\ after.reminder # Unparsable
                    /\ after.reminder \in {ClockTimes[t] : t \in 1..clock}
                           => FALSE
                    /\ IF \/ before.reminder = NoneStr
                          \/ before.reminder \in
                               {ClockTimes[t] : t \in (clock + 1)..Len(ClockTimes)}
                       THEN after = before
                       ELSE after = [before EXCEPT !.reminder = NoneStr]
          /\ Triggered(categories', clock) = <<>>
      ]_vars

\* A scan has run in which a notification raised: the reminder it was for
\* is none, the future reminder of another task is still set, and the
\* file holds the checklist as the scan left it.
C21_Witness ==
    /\ scan.raised # {}
    /\ \A pos \in scan.raised : TaskAt(categories, pos).reminder = NoneStr
    /\ \E pos \in AllPositions(categories) \ scan.raised :
           /\ TaskAt(categories, pos).reminder = ClockTimes[3]
           /\ clock < 3
    /\ file = JsonFile(to_dict(categories, current_category_id))

\* C22: in a scan every task whose reminder parses and is not after now
\* is notified exactly once, every other task not at all; the checklist is
\* saved and the caller signalled to refresh exactly when a reminder fired
\* or was found corrupted.
C22_OneNotificationEach ==
    [][IsScan =>
          LET due == {pos \in AllPositions(categories) :
                          TaskAt(categories, pos).reminder
                              \in {ClockTimes[t] : t \in 1..clock}}
              bad == {pos \in AllPositions(categories) :
                          TaskAt(categories, pos).reminder
                              \notin {NoneStr} \cup {ClockTimes[t] :
                                                      t \in DOMAIN ClockTimes}}
          IN /\ \A pos \in AllPositions(categories) :
                    Cardinality({k \in DOMAIN scan'.notified :
                                     scan'.notified[k].position = pos})
                        = IF pos \in due THEN 1 ELSE 0
             /\ Len(scan'.notified) = Cardinality(due)
             /\ scan'.saved = (due # {} \/ bad # {})
             /\ scan'.refresh = (due # {} \/ bad # {})
             /\ file' = IF due # {} \/ bad # {}
                        THEN JsonFile(to_dict(categories', current_category_id))
                        ELSE file
      ]_vars

\* A scan has notified two tasks and found a corrupted reminder, which it
\* did not notify; it saved and signalled.
C22_Witness ==
    /\ Len(scan.notified) = 2
    /\ scan.corrupted = 1
    /\ scan.saved /\ scan.refresh
    /\ file = JsonFile(to_dict(categories, current_category_id))
    /\ \A pos \in AllPositions(categories) :
           TaskAt(categories, pos).reminder = NoneStr

(***************************************************************************)
(* TaskSorter: properties                                                  *)
(***************************************************************************)

\* The triple the tasks are ordered by: incomplete before completed, high
\* before medium before low, and the due dates in their order with a
\* missing date behind every date.
OrderTriple(t) ==
    << IF t.completed THEN 1 ELSE 0,
       CASE "priority" \notin DOMAIN t -> 1
         [] t.priority = "high" -> 0
         [] t.priority = "medium" -> 1
         [] t.priority = "low" -> 2,
       IF "due_date" \in DOMAIN t /\ t.due_date # NoneStr
       THEN CHOOSE k \in 1..2 : DateOrder[k] = t.due_date
       ELSE 3 >>

TripleBefore(a, b) ==
    \/ a[1] < b[1]
    \/ a[1] = b[1] /\ a[2] < b[2]
    \/ a[1] = b[1] /\ a[2] = b[2] /\ a[3] < b[3]

\* The position in the input of a task of the result.
InputPosition(t) == CHOOSE k \in DOMAIN sorter.input : sorter.input[k] = t

SpecExample ==
    << [text |-> "t1", completed |-> TRUE, priority |-> "high"],
       [text |-> "t2", completed |-> FALSE, priority |-> "low", due_date |-> NoneStr],
       [text |-> "t3", completed |-> FALSE, priority |-> "high",
        due_date |-> "2025-01-01"] >>

\* C23: sort_smart returns a permutation of its input in ascending order
\* of the triple (completed, priority rank, due date with a missing date
\* last), tasks with equal triples in their input order; the list given is
\* the list returned; the three tasks of the example come back as the
\* third, the second, the first.
C23_SmartOrder ==
    sorter.called =>
        /\ Len(sorter.ret) = Len(sorter.input)
        /\ {sorter.ret[k] : k \in DOMAIN sorter.ret}
               = {sorter.input[k] : k \in DOMAIN sorter.input}
        /\ sorter.tasks = sorter.ret
        /\ \A k \in DOMAIN sorter.ret, l \in DOMAIN sorter.ret :
               k < l =>
                   /\ ~TripleBefore(OrderTriple(sorter.ret[l]),
                                    OrderTriple(sorter.ret[k]))
                   /\ OrderTriple(sorter.ret[k]) = OrderTriple(sorter.ret[l])
                          => InputPosition(sorter.ret[k]) < InputPosition(sorter.ret[l])
        /\ sorter.input = SpecExample
               => sorter.ret = <<SpecExample[3], SpecExample[2], SpecExample[1]>>

\* The example has been sorted.
C23_Witness ==
    /\ sorter.called
    /\ sorter.input = SpecExample
    /\ sorter.ret = <<SpecExample[3], SpecExample[2], SpecExample[1]>>

(***************************************************************************)
(* TaskSearcher: properties                                                *)
(***************************************************************************)

\* The text is a case-insensitive substring of str.
Within(text, str) == In(Lower(text), Lower(str))

\* What the task matches text by: its text, else a subtask, else a note.
MatchedBy(text, t) ==
    IF "text" \in DOMAIN t /\ Within(text, t.text) THEN "task"
    ELSE IF "subtasks" \in DOMAIN t
            /\ \E k \in DOMAIN t.subtasks : Within(text, t.subtasks[k].text)
    THEN "subtask"
    ELSE IF "notes" \in DOMAIN t
            /\ \E k \in DOMAIN t.notes : Within(text, t.notes[k])
    THEN "note"
    ELSE "no match"

\* The tasks that pass the filters and match text, as <<category position,
\* task position>>.
Passing(text) ==
    { pos \in (DOMAIN searcher.categories) \X (1..3) :
        LET cat == searcher.categories[pos[1]] IN
        /\ searcher.category_id \in {NoId, cat.id}
        /\ "tasks" \in DOMAIN cat
        /\ pos[2] \in DOMAIN cat.tasks
        /\ searcher.include_completed \/ ~cat.tasks[pos[2]].completed
        /\ MatchedBy(text, cat.tasks[pos[2]]) # "no match" }

PositionBefore(p, q) == p[1] < q[1] \/ (p[1] = q[1] /\ p[2] < q[2])

\* The results are one for every task that passes and matches text, in
\* category order then task order, each with its match type.
ResultsAreMatchesOf(text) ==
    /\ Len(searcher.results) = Cardinality(Passing(text))
    /\ \A k \in DOMAIN searcher.results :
           \E pos \in Passing(text) :
               /\ Cardinality({p \in Passing(text) : PositionBefore(p, pos)}) = k - 1
               /\ searcher.results[k] =
                      [category_id |-> searcher.categories[pos[1]].id,
                       category_name |-> searcher.categories[pos[1]].name,
                       task_idx |-> pos[2] - 1,
                       task |-> searcher.categories[pos[1]].tasks[pos[2]],
                       match_type |->
                           MatchedBy(text, searcher.categories[pos[1]].tasks[pos[2]])]

\* C24 as stated: the tasks found are those the query, as given, is a
\* case-insensitive substring of; none when the query is empty after
\* trimming.
C24_QueryAsGiven ==
    searcher.called =>
        IF Strip(searcher.query) = <<>>
        THEN searcher.results = <<>>
        ELSE ResultsAreMatchesOf(searcher.query)

\* C24 amended: the tasks found are those the query, trimmed of the
\* whitespace around it, is a case-insensitive substring of: one result
\* for a task, in category order then task order, of the tasks that pass
\* the category and include_completed filters, with match_type 'task' if
\* the text matches, else 'subtask', else 'note'; none when the query is
\* empty after trimming.
C24_QueryTrimmed ==
    searcher.called =>
        IF Strip(searcher.query) = <<>>
        THEN searcher.results = <<>>
        ELSE ResultsAreMatchesOf(Strip(searcher.query))

\* A search for a query with whitespace around it found, in category
\* order, a task by its text, one by a subtask and one by a note.
C24_Witness ==
    /\ searcher.called
    /\ Strip(searcher.query) # searcher.query
    /\ \E k \in DOMAIN searcher.results, l \in DOMAIN searcher.results,
          m \in DOMAIN searcher.results :
           /\ k < l /\ l < m
           /\ searcher.results[k].match_type = "task"
           /\ searcher.results[l].match_type = "subtask"
           /\ searcher.results[m].match_type = "note"
           /\ searcher.results[k].category_id # searcher.results[m].category_id

(***************************************************************************)
(* Category and Task operations: properties                                *)
(***************************************************************************)

\* The positions of the pending tasks.
PendingAt(tasks) == {j \in DOMAIN tasks : ~tasks[j].completed}

\* C25: clear_completed on a category returns the number of its tasks that
\* were completed; afterwards the category holds the tasks that were
\* pending, in their order, and no completed task, and nothing else of the
\* checklist has changed; on a category without completed tasks it
\* returns 0 and changes nothing.
C25_ClearCompleted ==
    [][\A i \in 1..2 :
          clear_completed(i) =>
              LET before == categories[i].tasks
                  after == categories'[i].tasks
              IN /\ mret' = ToString(Len(before) - Cardinality(PendingAt(before)))
                 /\ Len(after) = Cardinality(PendingAt(before))
                 /\ \A j \in PendingAt(before) :
                        after[Cardinality({l \in PendingAt(before) : l <= j})]
                            = before[j]
                 /\ \A k \in DOMAIN after : ~after[k].completed
                 /\ categories' = [categories EXCEPT ![i].tasks = after]
                 /\ current_category_id' = current_category_id
                 /\ PendingAt(before) = DOMAIN before
                        => mret' = "0" /\ categories' = categories
      ]_vars

\* A category that had a completed task between two pending ones has been
\* cleared: one task was removed and the two pending ones are left in
\* their order.
C25_Witness ==
    /\ mret = "1"
    /\ Len(categories) = 2
    /\ Len(categories[1].tasks) = 2
    /\ categories[1].tasks[1].text = "t1"
    /\ categories[1].tasks[2].text = "t3"
    /\ ~categories[1].tasks[1].completed /\ ~categories[1].tasks[2].completed

\* C26: toggle_completion of a task flips its completed flag and nothing
\* else: not the completed flag of any of its subtasks, no other field, no
\* other task; toggle_completion of a subtask flips its completed flag and
\* nothing else, not the completed flag of its task; the same toggle again
\* restores the state.
C26_ToggleFlipsOneFlag ==
    [][\A i \in 1..2, j \in 1..3 :
          /\ toggle_completion(i, j) =>
                 /\ categories'[i].tasks[j].completed
                        = ~categories[i].tasks[j].completed
                 /\ \A k \in DOMAIN categories[i].tasks[j].subtasks :
                        categories'[i].tasks[j].subtasks[k].completed
                            = categories[i].tasks[j].subtasks[k].completed
                 /\ [categories' EXCEPT ![i].tasks[j].completed = ~@] = categories
                 /\ [categories' EXCEPT ![i].tasks[j] = Toggled(@)] = categories
          /\ \A k \in 1..2 :
                 Subtask_toggle_completion(i, j, k) =>
                     /\ categories'[i].tasks[j].subtasks[k].completed
                            = ~categories[i].tasks[j].subtasks[k].completed
                     /\ categories'[i].tasks[j].completed
                            = categories[i].tasks[j].completed
                     /\ [categories' EXCEPT
                            ![i].tasks[j].subtasks[k].completed = ~@] = categories
                     /\ [categories' EXCEPT
                            ![i].tasks[j].subtasks[k] = ToggledSubtask(@)]
                            = categories
      ]_vars

\* Tasks and subtasks have been toggled: the task of the second category,
\* completed in every dict, is pending, and of the subtasks of a task, the
\* first completed and the second open in every dict, the first is open
\* and the second completed.
C26_Witness ==
    /\ mret = "None"
    /\ Len(categories) = 2
    /\ Len(categories[2].tasks) = 1
    /\ ~categories[2].tasks[1].completed
    /\ \E j \in DOMAIN categories[1].tasks :
           /\ Len(categories[1].tasks[j].subtasks) = 2
           /\ ~categories[1].tasks[j].subtasks[1].completed
           /\ categories[1].tasks[j].subtasks[2].completed

(***************************************************************************)
(* Loading the settings file                                               *)
(***************************************************************************)

\* What the settings file may hold: nothing, something that cannot be read,
\* text that is not JSON, a number, a list, or an object with some of the
\* settings.
SettingsContents ==
    {Absent, Unreadable, InvalidJson, JsonScalar,
     JsonList(<<>>), JsonList(<<NumberItem>>),
     JsonList(<<PairItem("input_bg_color", "red")>>),
     JsonList(<<PairItem("input_bg_color", "red"), NumberItem>>),
     JsonFile([input_bg_color |-> "red"]),
     JsonFile([recent_files |-> <<"a.json">>]),
     JsonFile([input_bg_color |-> "red", recent_files |-> <<"a.json">>])}

\* The settings file is edited and loaded by both implementations.
SettingsLoadNext ==
    \/ \E content \in SettingsContents : SettingsFileEdited(content)
    \/ load_settings
    \/ SettingsManager
    \/ \E content \in SettingsContents : ChecklistApp_load_settings(content)

SpecSettingsLoad == SettingsInit /\ [][SettingsLoadNext]_vars

\* C27: loading the settings never fails visibly: whatever the settings file
\* holds (nothing, an unreadable file, invalid JSON, a JSON list or scalar),
\* no exception leaves load_settings, and a load that fails leaves every
\* setting as it was.
C27_LoadNeverFails ==
    [][/\ \A content \in SettingsContents :
              ChecklistApp_load_settings(content) =>
                  /\ raised' = NoException
                  /\ content.kind # "json" =>
                         UNCHANGED <<input_bg_color, recent_files>>
       /\ load_settings /\ sret' = "False" => settings' = settings]_vars

\* C28: undo on a manager whose undo stack is empty returns None and leaves
\* both stacks as they were: the current state is not pushed onto the redo
\* stack; redo with an empty redo stack likewise.
C28_EmptyUndoRedoNoOp ==
    [][ /\ (IsCall("undo") /\ undo_stack = <<>>) =>
              /\ hist'.ret = None
              /\ UNCHANGED <<undo_stack, redo_stack>>
        /\ (IsCall("redo") /\ redo_stack = <<>>) =>
              /\ hist'.ret = None
              /\ UNCHANGED <<undo_stack, redo_stack>>
      ]_vars

\* The only recorded state was undone, and undo was called again: the redo
\* stack still holds its one entry.
C28_Witness ==
    /\ ~log.full
    /\ Len(log.calls) = 3
    /\ log.calls[1].op = "record_state"
    /\ log.calls[2].op = "undo"
    /\ log.calls[3].op = "undo"
    /\ hist.op = "undo"
    /\ hist.ret = None
    /\ undo_stack = <<>>
    /\ Len(redo_stack) = 1

\* C29: the two stacks never hold more than max_history entries together:
\* an undo or redo that returns a state moves one entry's worth of depth
\* from one stack to the other, and record_state empties the redo stack
\* and keeps the undo stack within the cap.
C29_TotalDepthCapped ==
    /\ Len(undo_stack) + Len(redo_stack) <= max_history
    /\ [][ /\ Len(undo_stack') + Len(redo_stack') <= max_history
           /\ (IsCall("undo") /\ hist'.ret # None) =>
                 /\ Len(undo_stack') = Len(undo_stack) - 1
                 /\ Len(redo_stack') = Len(redo_stack) + 1
           /\ (IsCall("redo") /\ hist'.ret # None) =>
                 /\ Len(redo_stack') = Len(redo_stack) - 1
                 /\ Len(undo_stack') = Len(undo_stack) + 1
           /\ IsCall("record_state") =>
                 /\ redo_stack' = <<>>
                 /\ Len(undo_stack') <= max_history
         ]_vars

\* A full undo stack after one undo: the two stacks hold max_history
\* entries together, one of them on the redo stack.
C29_Witness ==
    /\ hist.op = "undo"
    /\ hist.ret # None
    /\ Len(redo_stack) = 1
    /\ Len(undo_stack) = max_history - 1

(***************************************************************************)
(* Dragging categories                                                     *)
(***************************************************************************)

DragInit ==
    /\ DragStart /\ ModelStart /\ UndoIdle /\ AppIdle /\ StorageIdle
    /\ SettingsIdle /\ TaskIdle /\ ReminderIdle /\ SortIdle /\ SearchIdle
    /\ AppSettingsIdle

\* Categories are dragged and dropped, and removed in between so that the
\* index of a drag in progress becomes stale.
DragNext ==
    \/ \E i \in ReorderIndices : start_drag(i)
    \/ \E j \in ReorderIndices : end_drag(j)
    \/ \E id \in 1..MaxCategoryId : remove_category(id)

SpecDrag == DragInit /\ [][DragNext]_vars

\* i is the index of a category.
ValidIndex(i) == i \in 0 .. (Len(categories) - 1)

\* C30: start_drag(i) enters the dragging state only when i is a valid
\* category index; after end_drag the manager is never dragging; end_drag
\* returns True exactly when a drag was in progress and the reorder from
\* the dragged index to the target succeeded; on_reorder is then called
\* once, and not at all otherwise; whenever end_drag returns False the
\* category order is unchanged.
C30_DragDrop ==
    [][ /\ \A i \in ReorderIndices : start_drag(i) =>
              /\ (is_dragging' /\ ~is_dragging) => ValidIndex(i)
              /\ ValidIndex(i) => drag_data'.index = Some(i)
        /\ \A j \in ReorderIndices : end_drag(j) =>
              LET dragging == is_dragging
                  source == drag_data.index[1]
                  reordered ==
                      /\ dragging
                      /\ ValidIndex(source) /\ ValidIndex(j) /\ source # j
              IN  /\ drag_data'.index = None
                  /\ (dret'.ret = "True") = reordered
                  /\ (dret'.ret = "False") = ~reordered
                  /\ reordered =>
                        /\ categories'[j + 1] = categories[source + 1]
                        /\ Len(categories') = Len(categories)
                        /\ Ids(categories') = Ids(categories)
                  /\ on_reorder =>
                        dret'.called = IF reordered THEN 1 ELSE 0
                  /\ ~reordered => categories' = categories
      ]_vars

\* A drag that moved a category to the front: end_drag returned True and
\* called on_reorder once.
C30_Witness ==
    /\ dret.op = "end_drag"
    /\ dret.ret = "True"
    /\ dret.called = 1
    /\ on_reorder
    /\ drag_data.index = None
    /\ Len(categories) = 5
    /\ categories[1].id = 3

====
